---------------------------- MODULE Spec2Model ----------------------------
(***************************************************************************)
(* Lag (latency) compensation of a SpaceFOM PhysicalEntity.                *)
(*                                                                         *)
(* Two rigid-body compensators, the generic integration loop and the base  *)
(* class are modelled side by side:                                        *)
(*   "SA"   : PhysicalEntityLagCompSA (self-contained Trick SAIntegrator)  *)
(*   "LC"   : PhysicalEntityLagComp   (delegates to a Trick::Integrator)   *)
(*   "LCI"  : LagCompensationInteg    (generic loop around abstract hooks) *)
(*   "Base" : LagCompensation         (entry points not overridden)        *)
(*                                                                         *)
(* Numbers.  The doubles of the program are modelled by integers.  Time is *)
(* counted in ticks of 0.05 time units, so the default fixed step          *)
(* integ_dt = 0.05 is one tick and the default tolerance 1.0e-8, which is  *)
(* smaller than any tick, behaves as 0 on tick-valued times.  Kinematic    *)
(* values are integers; angular rates are kept even so that the factor 1/2 *)
(* of the quaternion rate is exact.  Rounding of doubles is not modelled.  *)
(***************************************************************************)
EXTENDS Integers, Sequences, FiniteSets, TLC

\* ----------------------------------------------------------------- bounds
MaxTime == 1           \* scenario times and data time stamps are 0..MaxTime
MaxLookahead == 2      \* the longest lookahead run with accelerations
MaxIntegDt == 2        \* the longest configured fixed step
MaxIntegTol == 1       \* the largest configured tolerance
MaxCycles == 2         \* compensation cycles per behaviour
ExampleInterval == 10  \* the interval [0.0, 0.5] in ticks of 0.05
MaxStages == 2         \* passes per step of the generic loop's stepper: 1..MaxStages
MaxPasses == 12        \* passes of the stepper followed within one call
MaxMissing == 2        \* attributes an object may lack

\* ------------------------------------------------------ program constants
IntegDtDefault == 1    \* integ_dt( 0.05 ), one tick
IntegTolDefault == 0   \* integ_tol( 1.0e-8 ), below one tick
NumStates == 13        \* slots of integ_states
LoadSlots == 12        \* bound of the copy loop of PhysicalEntityLagComp::load
UnloadSlots == 12      \* bound of the copy loop of PhysicalEntityLagComp::unload
AttrCount == 9         \* object->attr_count = 9
MostNegative == -1000000  \* -std::numeric_limits< double >::max(), in ticks

\* ------------------------------------------------------------ vector math
Zero3 == <<0, 0, 0>>

Dot(a, b) == a[1] * b[1] + a[2] * b[2] + a[3] * b[3]

Cross(a, b) == << a[2] * b[3] - a[3] * b[2],
                  a[3] * b[1] - a[1] * b[3],
                  a[1] * b[2] - a[2] * b[1] >>

Half(x) == x \div 2

Min(a, b) == IF a < b THEN a ELSE b

fabs(x) == IF x < 0 THEN 0 - x ELSE x

\* Sums and differences of doubles.  The times of a run are exact ticks;
\* next to the most negative double a term of ordinary size is lost in the
\* rounding, and the most negative double minus itself is exactly zero.
Plus(a, b) == IF a = MostNegative THEN MostNegative ELSE a + b

Minus(a, b) == IF a = MostNegative /\ b # MostNegative THEN MostNegative ELSE a - b

\* Q_dot = 1/2 * Q (x) (0, omega), scalar-first Hamilton product.
compute_Q_dot(quat_scalar, quat_vector, omega) ==
    [ scalar |-> Half(0 - Dot(quat_vector, omega)),
      vector |-> [ i \in 1..3 |->
                     Half(quat_scalar * omega[i] + Cross(quat_vector, omega)[i]) ] ]

\* ------------------------------------------------------------- data model
\* The kinematic snapshot (lag_comp_data, and the entity's state).
ZeroState == [ time |-> 0, pos |-> Zero3, vel |-> Zero3,
               quat_scalar |-> 0, quat_vector |-> Zero3, ang_vel |-> Zero3 ]

\* integ_states[0..12]: the fixed layout [pos(3), vel(3), quat(4), ang_vel(3)]
\* read through the aliases (slot k of the program is index k+1 here).
integ_states(d) ==
    << d.pos[1], d.pos[2], d.pos[3],
       d.vel[1], d.vel[2], d.vel[3],
       d.quat_scalar, d.quat_vector[1], d.quat_vector[2], d.quat_vector[3],
       d.ang_vel[1], d.ang_vel[2], d.ang_vel[3] >>

\* Writing the first n slots of s through the aliases into d.
store_states(d, s, n) ==
    LET m == [ i \in 1..NumStates |-> IF i <= n THEN s[i] ELSE integ_states(d)[i] ]
    IN  [ d EXCEPT !.pos = << m[1], m[2], m[3] >>,
                   !.vel = << m[4], m[5], m[6] >>,
                   !.quat_scalar = m[7],
                   !.quat_vector = << m[8], m[9], m[10] >>,
                   !.ang_vel = << m[11], m[12], m[13] >> ]

ZeroVector == [ i \in 1..NumStates |-> 0 ]


\* Copy-in / copy-out between the entity and the lag compensation buffer
\* (PhysicalEntityLagCompBase): every kinematic field and the time stamp.
copy_state_from_entity(ent) ==
    [ time |-> ent.time, pos |-> ent.pos, vel |-> ent.vel,
      quat_scalar |-> ent.quat_scalar, quat_vector |-> ent.quat_vector,
      ang_vel |-> ent.ang_vel ]

copy_state_to_entity(lcd) ==
    [ time |-> lcd.time, pos |-> lcd.pos, vel |-> lcd.vel,
      quat_scalar |-> lcd.quat_scalar, quat_vector |-> lcd.quat_vector,
      ang_vel |-> lcd.ang_vel ]

\* ----------------------------------------------------------------- inputs
\* Kinematic snapshots an entity can hold (time stamp set separately).
Snapshots ==
    { [ time |-> 0, pos |-> <<0, 0, 0>>, vel |-> <<1, 0, 0>>,
        quat_scalar |-> 1, quat_vector |-> <<0, 0, 0>>, ang_vel |-> <<0, 0, 0>> ],
      [ time |-> 0, pos |-> <<1, 0, 2>>, vel |-> <<0, 1, 0>>,
        quat_scalar |-> 1, quat_vector |-> <<0, 0, 0>>, ang_vel |-> <<0, 0, 2>> ] }

\* Externally supplied accelerations (accel, rot_accel).
ZeroAcceleration == [ accel |-> <<0, 0, 0>>, rot_accel |-> <<0, 0, 0>> ]

Accelerations == { ZeroAcceleration,
                   [ accel |-> <<1, 0, 0>>, rot_accel |-> <<0, 0, 2>> ] }

Variants == { "SA", "LC", "LCI", "Base" }
ScenarioTimes == 0..MaxTime

\* The federation's lookahead is fixed for a run: none, or MaxLookahead (the
\* intervals in between occur on the receive side).  The long interval of the
\* worked example ([0.0, 0.5] with step 0.05) is run without accelerations
\* only, which keeps the integrated values small.
Lookaheads(a) == IF a = ZeroAcceleration
                 THEN { 0, MaxLookahead, ExampleInterval }
                 ELSE { 0, MaxLookahead }

\* ------------------------------------------------------------------ state
VARIABLES
    variant,        \* which compensator class this instance is
    federate,       \* the compensator has an object and the object a federate
    integ_dt,       \* configured fixed step
    integ_tol,      \* configured tolerance
    accel,          \* externally supplied translational acceleration
    rot_accel,      \* externally supplied rotational acceleration
    input_file,     \* the settings the run's input file assigns
    debug,          \* the compensator's debug flag
    show_trace,     \* DebugHandler::show( DEBUG_LEVEL_6_TRACE,
                    \*                     DEBUG_SOURCE_LAG_COMPENSATION )
    entity,         \* the entity's kinematic state (PhysicalEntityBase)
    scenario_t,     \* get_scenario_time()
    lookahead,      \* get_lookahead()
    received,       \* state_attr->is_received() of the current cycle
    lag_comp_data,  \* the lag compensation buffer
    Q_dot,          \* stored quaternion rate
    integ_t,        \* current integration time
    compensate_dt,  \* saved compensation interval
    integrator,     \* the stepper: [ok, time, dt, state, deriv, stages,
                    \*               intermediate_step]
    pc,             \* position of the running entry point
    mode,           \* entry point of the current cycle: "none", "send", "recv",
                    \* "integ"; "base_send", "base_recv" for the base class's own
    begin_t,        \* local of the entry point (data_t on the receive side)
    end_t,          \* local of the entry point
    t_begin,        \* parameter of compensate
    t_end,          \* parameter of compensate
    dt_go,          \* local of compensate
    ipass,          \* local of compensate
    status,         \* value returned by compensate (-1: no return yet)
    entity0,        \* entity as it was when the entry point was called
    lag0,           \* lag_comp_data as it was when the entry point was called
    slot12_0,       \* slot 12 of the stepper's state when the entry point was called
    cnt,            \* invocation counts of the current cycle
    cycles,         \* number of cycles started
    \* --- attribute lookup of PhysicalEntityBase (AttrSpec)
    object,         \* the FOM attribute names of the TrickHLA::Object, or NoObject
    attr_refs,      \* the nine *_attr references, in the order they are assigned
    cb_pc,          \* position of initialize_callback()
    cb_next,        \* which of the nine lookups initialize_callback() does next
    lookup,         \* the last separate call of get_attribute_and_validate()
    \* --- two entities with a buffering compensator each (PairSpec)
    comp,           \* per entity: its compensator, buffer and entity state
    heap,           \* the steppers handed out by Trick::getIntegrator
    \* --- identifying fields of PhysicalEntityBase (IdentSpec)
    ident,          \* name, type, status, parent_frame: a string or NULL
    initialized,    \* PhysicalEntityBase::initialized
    peb_pc,         \* position in the life of the PhysicalEntityBase
    hs,             \* warnings written with send_hs
    substituted,    \* empty strings put in the place of a missing value
    pe_object       \* the HLA object default_data() configures

settings == << variant, federate, integ_dt, integ_tol, input_file, debug, show_trace >>
config == << settings, accel, rot_accel >>
environment == << scenario_t, lookahead, received >>
entry_locals == << mode, begin_t, end_t, entity0, lag0, slot12_0, cycles >>
comp_locals == << t_begin, t_end, dt_go, ipass, status >>
compensator_vars ==
        << variant, federate, integ_dt, integ_tol, accel, rot_accel, entity, scenario_t,
           lookahead, received, lag_comp_data, Q_dot, integ_t, compensate_dt,
           integrator, pc, mode, begin_t, end_t, t_begin, t_end, dt_go, ipass,
           status, entity0, lag0, cnt, cycles, input_file, debug, show_trace,
           slot12_0 >>
attr_vars == << object, attr_refs, cb_pc, cb_next, lookup >>
pair_vars == << comp, heap >>
ident_vars == << ident, initialized, peb_pc, hs, substituted, pe_object >>
other_vars == << attr_vars, pair_vars, ident_vars >>
vars == << compensator_vars, attr_vars, pair_vars, ident_vars >>

ZeroCounts == [ compensate |-> 0, copy_from |-> 0, copy_to |-> 0,
                load |-> 0, integrate |-> 0, unload |-> 0, steps |-> 0,
                derivative_first |-> 0, update_time |-> 0, sizes |-> << >>,
                cout |-> 0, calls |-> << >> ]

\* A NULL pointer (an attribute reference, or a FOM name).
NULL == "NULL"

\* The FOM names initialize_callback() resolves, in the order of its
\* assignments: name_attr, type_attr, status_attr, parent_frame_attr,
\* state_attr, accel_attr, rot_accel_attr, cm_attr, body_frame_attr.
AttributeFOMNames ==
    << "name", "type", "status", "parent_reference_frame", "state",
       "acceleration", "rotational_acceleration", "center_of_mass",
       "body_wrt_structural" >>

AttributeNameSet == { AttributeFOMNames[k] : k \in 1..Len(AttributeFOMNames) }

NoObject == [ present |-> FALSE, attributes |-> {} ]

NoLookup == [ called |-> FALSE, name |-> NULL, terminated |-> FALSE, attr |-> NULL ]

\* PhysicalEntityBase right after its constructor: every *_attr is NULL and
\* no object is attached.
AttrConstructed ==
    /\ object = NoObject
    /\ attr_refs = [ k \in 1..Len(AttributeFOMNames) |-> NULL ]
    /\ cb_pc = "constructed"
    /\ cb_next = 1
    /\ lookup = NoLookup

\* No entity of the two-entity setting exists.
PairAbsent == comp = << >> /\ heap = << >>

\* No PhysicalEntityBase of the identifying-fields setting is looked at.
IdentConstructed ==
    /\ ident = [ name |-> NULL, type |-> NULL, status |-> NULL,
                 parent_frame |-> NULL ]
    /\ initialized = FALSE
    /\ peb_pc = "constructed"
    /\ hs = 0
    /\ substituted = 0
    /\ pe_object = [ create_HLA_instance |-> FALSE, attr_count |-> 0,
                     attributes |-> << >> ]

\* The settings an input file assigns before initialize(): the fixed step,
\* the tolerance and the diagnostics.
InputFiles ==
    [ integ_dt : { IntegDtDefault, MaxIntegDt },
      integ_tol : { IntegTolDefault, MaxIntegTol },
      debug : { FALSE }, show_trace : { FALSE } ]

\* A stepper with zero-filled buffers.
ZeroStepper(present) ==
    [ ok |-> present, time |-> 0, dt |-> IntegDtDefault, state |-> ZeroVector,
      deriv |-> ZeroVector, stages |-> 1, intermediate_step |-> 0 ]

\* PhysicalEntityLagCompSA::PhysicalEntityLagCompSA: integ_t( 0.0 ),
\* integ_dt( 0.05 ), integ_tol( 1.0e-8 ), the member integrator built with
\* this->integ_dt, zero accelerations.
SA_constructor ==
    /\ integ_t = 0
    /\ integ_dt = IntegDtDefault
    /\ integ_tol = IntegTolDefault
    /\ integrator = ZeroStepper(TRUE)
    /\ accel = Zero3 /\ rot_accel = Zero3

\* A constructor of the buffering class with another fixed step.
LC_constructor_other_step ==
    /\ integ_t = 0
    /\ integ_dt = MaxIntegDt
    /\ integ_tol = IntegTolDefault
    /\ integrator = ZeroStepper(FALSE)
    /\ accel = Zero3 /\ rot_accel = Zero3

\* PhysicalEntityLagComp::PhysicalEntityLagComp: integ_t( 0.0 ),
\* integ_dt( 0.05 ), integ_tol( 1.0e-8 ), integrator( NULL ), zero accelerations.
LC_constructor ==
    /\ integ_t = 0
    /\ integ_dt = IntegDtDefault
    /\ integ_tol = IntegTolDefault
    /\ integrator = ZeroStepper(FALSE)
    /\ accel = Zero3 /\ rot_accel = Zero3

\* LagCompensationInteg::LagCompensationInteg: integ_t( 0.0 ), integ_dt( 0.05 ),
\* integ_tol( 1.0e-8 ), integrator( NULL ).  The class has no accelerations.
LCI_constructor ==
    /\ integ_t = 0
    /\ integ_dt = IntegDtDefault
    /\ integ_tol = IntegTolDefault
    /\ integrator = ZeroStepper(FALSE)
    /\ accel = Zero3 /\ rot_accel = Zero3

\* A class that extends LagCompensation and adds nothing: it has no step
\* control and no stepper.
Base_constructor ==
    /\ integ_t = 0
    /\ integ_dt = IntegDtDefault
    /\ integ_tol = IntegTolDefault
    /\ integrator = ZeroStepper(FALSE)
    /\ accel = Zero3 /\ rot_accel = Zero3

\* The classes without rigid-body state run without accelerations, lookahead
\* or entity state.
Plain == variant \in { "LCI", "Base" }

\* The state right after the constructor of the chosen class has run, in a
\* run whose input file is one of files.
Built(files) ==
    /\ variant \in Variants
    /\ CASE variant = "SA" -> SA_constructor
         [] variant = "LC" -> LC_constructor
         [] variant = "LCI" -> LCI_constructor
         [] OTHER -> Base_constructor
    /\ input_file \in files
    /\ debug = FALSE
    /\ show_trace = FALSE
    /\ lookahead \in (IF Plain THEN { 0 } ELSE Lookaheads(ZeroAcceleration))
    /\ entity \in (IF Plain THEN { ZeroState } ELSE Snapshots)
    /\ scenario_t = 0
    /\ received = FALSE
    /\ lag_comp_data = ZeroState
    /\ Q_dot = [ scalar |-> 0, vector |-> Zero3 ]
    /\ compensate_dt = 0
    /\ pc = "new"
    /\ mode = "none"
    /\ begin_t = 0 /\ end_t = 0
    /\ t_begin = 0 /\ t_end = 0 /\ dt_go = 0 /\ ipass = 0 /\ status = -1
    /\ entity0 = entity
    /\ lag0 = lag_comp_data
    /\ slot12_0 = integrator.state[NumStates]
    /\ cnt = ZeroCounts

\* A compensator whose object is set and belongs to a federate.
New(files) == Built(files) /\ federate = TRUE

Init ==
    /\ New(InputFiles) /\ cycles = 0
    /\ AttrConstructed /\ PairAbsent /\ IdentConstructed

\* The accelerations the surrounding simulation can supply in this run.
SuppliedAccelerations ==
    IF Plain \/ lookahead = ExampleInterval THEN { ZeroAcceleration }
                                             ELSE Accelerations

\* The input file is processed: the public settings get their values for the
\* run, and the surrounding simulation supplies the accelerations of the
\* first cycle.
process_input_file ==
    /\ pc = "new"
    /\ integ_dt' = input_file.integ_dt
    /\ integ_tol' = input_file.integ_tol
    /\ \E a \in SuppliedAccelerations :
         /\ accel' = a.accel
         /\ rot_accel' = a.rot_accel
    /\ debug' = input_file.debug
    /\ show_trace' = input_file.show_trace
    /\ pc' = "constructed"
    /\ UNCHANGED << other_vars, variant, federate, input_file, environment, entity,
                    lag_comp_data, Q_dot, integ_t, compensate_dt, integrator,
                    entry_locals, comp_locals, cnt >>


Bump(c, f) == [ c EXCEPT ![f] = @ + 1 ]

\* A schedule that lets the entry points run before initialize() has run.
Idle_before_initialize == pc \in { "constructed", "idle", "done" }

\* The entry points are scheduled jobs: they run after the initialization
\* jobs (initialize()) and between cycles, never inside a running cycle.
Idle == pc \in { "idle", "done" }

\* The record of the hooks and stepper calls of the generic loop, in order.
Call(c, name) == [ c EXCEPT !.calls = Append(@, name) ]

\* A scenario time that is zero without object or federate.
get_scenario_time_zero(fed, t) == IF fed THEN t ELSE 0

\* LagCompensation::get_scenario_time(): the execution control's scenario
\* time t, or the most negative double without object or federate.
get_scenario_time(fed, t) == IF fed THEN t ELSE MostNegative

\* LagCompensation::get_lookahead(): the object's lookahead la, or an
\* interval of -1.0 without object (Object::get_lookahead: without federate).
get_lookahead(fed, la) == IF fed THEN la ELSE -1

\* A block of diagnostic text is written to cout when on is true.
Emit(c, on) == IF on THEN Bump(c, "cout") ELSE c

\* What an entry point records when it is called; send_lag_compensation()
\* and receive_lag_compensation() write their trace block when
\* DebugHandler::show() allows it.
EnterCycle(m) ==
    /\ mode' = m
    /\ entity0' = entity
    /\ lag0' = lag_comp_data
    /\ slot12_0' = integrator.state[NumStates]
    /\ cnt' = IF m \in { "send", "recv" } THEN Emit(ZeroCounts, show_trace)
                                          ELSE ZeroCounts
    /\ cycles' = cycles + 1
    /\ status' = -1

\* The surrounding simulation gives the entity a new state between cycles
\* (unpacking of received attributes, or the entity's own dynamics) and
\* supplies the accelerations for the next cycle.  The locals and the records
\* of the previous call are gone by then.
EntityUpdate ==
    /\ Idle /\ variant # "LCI"
    /\ cycles < MaxCycles
    /\ \E s \in Snapshots, t \in ScenarioTimes :
         entity' = [ s EXCEPT !.time = t ]
    /\ \E a \in (IF lookahead = ExampleInterval THEN { ZeroAcceleration }
                                                ELSE Accelerations) :
         /\ accel' = a.accel
         /\ rot_accel' = a.rot_accel
    /\ pc' = "idle"
    /\ mode' = "none"
    /\ begin_t' = 0 /\ end_t' = 0
    /\ t_begin' = 0 /\ t_end' = 0 /\ dt_go' = 0 /\ ipass' = 0 /\ status' = -1
    /\ entity0' = entity'
    /\ lag0' = lag_comp_data
    /\ slot12_0' = integrator.state[NumStates]
    /\ cnt' = ZeroCounts
    /\ UNCHANGED << other_vars, settings, environment, lag_comp_data,
                    Q_dot, integ_t, compensate_dt, integrator, cycles >>

\* ======================================================================
\* PhysicalEntityLagCompSA
\* ======================================================================
SA_initialize ==
    /\ pc = "constructed" /\ variant = "SA"
    /\ pc' = "idle"
    /\ UNCHANGED << other_vars, config, environment, entity, lag_comp_data, Q_dot, integ_t,
                    compensate_dt, integrator, entry_locals, comp_locals, cnt >>

\* A send that does not add the lookahead.
SA_send_end_t_no_lookahead(begin, dt) == begin

\* end_t = begin_t + this->compensate_dt
SA_send_end_t(begin, dt) == Plus(begin, dt)

SA_send_lag_compensation ==
    /\ Idle /\ variant = "SA" /\ cycles < MaxCycles
    /\ \E st \in scenario_t..MaxTime :
         /\ scenario_t' = st
         /\ begin_t' = get_scenario_time(federate, st)
         /\ compensate_dt' = get_lookahead(federate, lookahead)
         /\ end_t' = SA_send_end_t(begin_t', compensate_dt')
    /\ EnterCycle("send")
    /\ pc' = "call"
    /\ UNCHANGED << other_vars, config, lookahead, received, entity, lag_comp_data, Q_dot, integ_t,
                    integrator, t_begin, t_end, dt_go, ipass >>

\* if ( this->state_attr->is_received() ) compensate( data_t, end_t )
SA_receive_gate(r) == IF r THEN "call" ELSE "ret"

SA_receive_lag_compensation ==
    /\ Idle /\ variant = "SA" /\ cycles < MaxCycles
    /\ \E st \in scenario_t..MaxTime, r \in BOOLEAN :
         /\ scenario_t' = st
         /\ received' = r
         /\ end_t' = get_scenario_time(federate, st)
         /\ begin_t' = entity.time
         /\ compensate_dt' = Minus(end_t', entity.time)
         /\ pc' = SA_receive_gate(r)
    /\ EnterCycle("recv")
    /\ UNCHANGED << other_vars, config, lookahead, entity, lag_comp_data, Q_dot, integ_t,
                    integrator, t_begin, t_end, dt_go, ipass >>

\* derivs[0..12] of the 13-slot state vector.
derivatives(states, acc, racc) ==
    LET qdot == compute_Q_dot(states[7], << states[8], states[9], states[10] >>,
                              << states[11], states[12], states[13] >>)
    IN  << states[4], states[5], states[6],
           acc[1], acc[2], acc[3],
           qdot.scalar, qdot.vector[1], qdot.vector[2], qdot.vector[3],
           racc[1], racc[2], racc[3] >>

\* A compensate that goes on from the buffer the previous cycle left.
SA_compensate_from_buffer ==
    /\ pc = "call" /\ variant = "SA"
    /\ t_begin' = begin_t
    /\ t_end' = end_t
    /\ dt_go' = Minus(end_t, begin_t)
    /\ lag_comp_data' = IF cycles > 1 THEN lag_comp_data
                                      ELSE copy_state_from_entity(entity)
    /\ Q_dot' = compute_Q_dot(lag_comp_data'.quat_scalar,
                              lag_comp_data'.quat_vector, lag_comp_data'.ang_vel)
    /\ integ_t' = begin_t
    /\ integrator' = [ integrator EXCEPT !.time = begin_t ]
    /\ compensate_dt' = Minus(end_t, begin_t)
    /\ cnt' = Emit(Bump(Bump(cnt, "compensate"), "copy_from"), debug)
    /\ pc' = "while"
    /\ UNCHANGED << other_vars, config, environment, entity, entry_locals, ipass, status >>

\* compensate(): copy-in, first Q_dot, integ_t = t_begin, setIndyVar
SA_compensate ==
    /\ pc = "call" /\ variant = "SA"
    /\ t_begin' = begin_t
    /\ t_end' = end_t
    /\ dt_go' = Minus(end_t, begin_t)
    /\ lag_comp_data' = copy_state_from_entity(entity)
    /\ Q_dot' = compute_Q_dot(lag_comp_data'.quat_scalar,
                              lag_comp_data'.quat_vector, lag_comp_data'.ang_vel)
    /\ integ_t' = begin_t
    /\ integrator' = [ integrator EXCEPT !.time = begin_t ]
    /\ compensate_dt' = Minus(end_t, begin_t)
    /\ cnt' = Emit(Bump(Bump(cnt, "compensate"), "copy_from"), debug)
    /\ pc' = "while"
    /\ UNCHANGED << other_vars, config, environment, entity, entry_locals, ipass, status >>

\* A loop guard without the tolerance test.
SA_while_cond_no_tol == dt_go >= 0

SA_while_cond == (dt_go >= 0) /\ (fabs(dt_go) > integ_tol)

SA_while ==
    /\ pc = "while" /\ variant = "SA"
    /\ pc' = IF SA_while_cond THEN "load" ELSE "finish"
    /\ UNCHANGED << other_vars, config, environment, entity, lag_comp_data, Q_dot, integ_t,
                    compensate_dt, integrator, entry_locals, comp_locals, cnt >>

\* integrator.load(): the stepper reads all 13 aliased fields.
SA_load ==
    /\ pc = "load" /\ variant = "SA" /\ cnt.load < MaxPasses
    /\ integrator' = [ integrator EXCEPT !.state = integ_states(lag_comp_data) ]
    /\ cnt' = Bump(cnt, "load")
    /\ pc' = "step"
    /\ UNCHANGED << other_vars, config, environment, entity, lag_comp_data, Q_dot, integ_t,
                    compensate_dt, entry_locals, comp_locals >>

\* A step that always takes the whole remaining interval.
SA_step_dt_remaining == dt_go

SA_step_dt == IF dt_go > integ_dt THEN integ_dt ELSE dt_go

\* integrator.variable_step(h): one explicit first-order step of size h.
SA_variable_step ==
    /\ pc = "step" /\ variant = "SA"
    /\ LET h == SA_step_dt
           d == derivatives(integrator.state, accel, rot_accel)
       IN  integrator' = [ integrator EXCEPT
                             !.dt = h,
                             !.deriv = d,
                             !.state = [ i \in 1..NumStates |->
                                           integrator.state[i] + d[i] * h ],
                             !.time = @ + h ]
    /\ cnt' = Bump(cnt, "integrate")
    /\ pc' = "unload"
    /\ UNCHANGED << other_vars, config, environment, entity, lag_comp_data, Q_dot, integ_t,
                    compensate_dt, entry_locals, comp_locals >>

\* An unload that writes through to the entity while the loop is running.
SA_unload_through_entity ==
    /\ pc = "unload" /\ variant = "SA"
    /\ lag_comp_data' = store_states(lag_comp_data, integrator.state, NumStates)
    /\ entity' = copy_state_to_entity(lag_comp_data')
    /\ cnt' = Bump(cnt, "unload")
    /\ pc' = "update"
    /\ UNCHANGED << other_vars, config, environment, Q_dot, integ_t, compensate_dt,
                    integrator, entry_locals, comp_locals >>

\* integrator.unload(): the stepper writes all 13 aliased fields.
SA_unload ==
    /\ pc = "unload" /\ variant = "SA"
    /\ lag_comp_data' = store_states(lag_comp_data, integrator.state, NumStates)
    /\ cnt' = Bump(cnt, "unload")
    /\ pc' = "update"
    /\ UNCHANGED << other_vars, config, environment, entity, Q_dot, integ_t, compensate_dt,
                    integrator, entry_locals, comp_locals >>

SA_update_time ==
    /\ pc = "update" /\ variant = "SA"
    /\ integ_t' = integrator.time
    /\ dt_go' = t_end - integrator.time
    /\ cnt' = Emit([ Bump(cnt, "steps") EXCEPT !.sizes = Append(@, integrator.dt) ],
                   debug)
    /\ pc' = "while"
    /\ UNCHANGED << other_vars, config, environment, entity, lag_comp_data, Q_dot,
                    compensate_dt, integrator, entry_locals, t_begin, t_end,
                    ipass, status >>

\* A return that reports the number of steps taken as its status.
SA_compensate_return_step_count ==
    /\ pc = "finish" /\ variant = "SA"
    /\ lag_comp_data' = [ lag_comp_data EXCEPT !.time = integ_t ]
    /\ status' = cnt.steps
    /\ cnt' = Emit(cnt, debug)
    /\ pc' = "ret"
    /\ UNCHANGED << other_vars, config, environment, entity, Q_dot, integ_t, compensate_dt,
                    integrator, entry_locals,
                    t_begin, t_end, dt_go, ipass >>

\* return( 0 ) at the end of compensate()
SA_compensate_return ==
    /\ pc = "finish" /\ variant = "SA"
    /\ lag_comp_data' = [ lag_comp_data EXCEPT !.time = integ_t ]
    /\ status' = 0
    /\ cnt' = Emit(cnt, debug)
    /\ pc' = "ret"
    /\ UNCHANGED << other_vars, config, environment, entity, Q_dot, integ_t, compensate_dt,
                    integrator, entry_locals,
                    t_begin, t_end, dt_go, ipass >>

\* An SA entry point that copies the buffer onto the entity, as the
\* buffering class does.
SA_return_copy_out ==
    /\ pc = "ret" /\ variant = "SA"
    /\ entity' = copy_state_to_entity(lag_comp_data)
    /\ cnt' = Bump(cnt, "copy_to")
    /\ pc' = "done"
    /\ UNCHANGED << other_vars, config, environment, lag_comp_data, Q_dot, integ_t,
                    compensate_dt, integrator, entry_locals, comp_locals >>

\* Both entry points of the SA class return right after compensate.
SA_return ==
    /\ pc = "ret" /\ variant = "SA"
    /\ pc' = "done"
    /\ UNCHANGED << other_vars, config, environment, entity, lag_comp_data, Q_dot, integ_t,
                    compensate_dt, integrator, entry_locals, comp_locals, cnt >>


\* ======================================================================
\* PhysicalEntityLagComp
\* ======================================================================
\* An initialize() that does not look at what it obtained.
LC_initialize_unchecked(obtained) == "idle"

\* if ( this->integrator == NULL ) ... DebugHandler::terminate_with_message
LC_initialize_check(obtained) == IF obtained THEN "idle" ELSE "terminated"

\* Trick::getIntegrator( Euler, 26, integ_dt ) hands out a zero-filled stepper,
\* or NULL.
LC_initialize ==
    /\ pc = "constructed" /\ variant = "LC"
    /\ \E obtained \in BOOLEAN :
         /\ integrator' = [ integrator EXCEPT !.ok = obtained, !.dt = integ_dt ]
         /\ pc' = LC_initialize_check(obtained)
    /\ UNCHANGED << other_vars, config, environment, entity, lag_comp_data, Q_dot, integ_t,
                    compensate_dt, entry_locals, comp_locals, cnt >>

\* end_t = begin_t + this->compensate_dt
LC_send_end_t(begin, dt) == Plus(begin, dt)

LC_send_lag_compensation ==
    /\ Idle /\ variant = "LC" /\ cycles < MaxCycles
    /\ \E st \in scenario_t..MaxTime :
         /\ scenario_t' = st
         /\ begin_t' = get_scenario_time(federate, st)
         /\ compensate_dt' = get_lookahead(federate, lookahead)
         /\ end_t' = LC_send_end_t(begin_t', compensate_dt')
    /\ EnterCycle("send")
    /\ pc' = "call"
    /\ UNCHANGED << other_vars, config, lookahead, received, entity, lag_comp_data, Q_dot, integ_t,
                    integrator, t_begin, t_end, dt_go, ipass >>

\* A receive that compensates whether or not data was received.
LC_receive_gate_ignored(r) == "call"

\* if ( this->state_attr->is_received() ) compensate( data_t, end_t )
LC_receive_gate(r) == IF r THEN "call" ELSE "ret"

\* A receive that saves the compensation time step only when data was received.
LC_receive_lag_compensation_dt_behind_gate ==
    /\ Idle /\ variant = "LC" /\ cycles < MaxCycles
    /\ \E st \in scenario_t..MaxTime, r \in BOOLEAN :
         /\ scenario_t' = st
         /\ received' = r
         /\ end_t' = get_scenario_time(federate, st)
         /\ begin_t' = entity.time
         /\ compensate_dt' = IF r THEN Minus(end_t', entity.time) ELSE compensate_dt
         /\ pc' = LC_receive_gate(r)
    /\ EnterCycle("recv")
    /\ UNCHANGED << other_vars, config, lookahead, entity, lag_comp_data, Q_dot, integ_t,
                    integrator, t_begin, t_end, dt_go, ipass >>

\* receive_lag_compensation(): end_t, data_t, compensate_dt, then the gate
LC_receive_lag_compensation ==
    /\ Idle /\ variant = "LC" /\ cycles < MaxCycles
    /\ \E st \in scenario_t..MaxTime, r \in BOOLEAN :
         /\ scenario_t' = st
         /\ received' = r
         /\ end_t' = get_scenario_time(federate, st)
         /\ begin_t' = entity.time
         /\ compensate_dt' = Minus(end_t', entity.time)
         /\ pc' = LC_receive_gate(r)
    /\ EnterCycle("recv")
    /\ UNCHANGED << other_vars, config, lookahead, entity, lag_comp_data, Q_dot, integ_t,
                    integrator, t_begin, t_end, dt_go, ipass >>

\* A prologue whose copy-in sits inside the debug block.
LC_compensate_copy_in_debug_block ==
    /\ pc = "call" /\ variant = "LC"
    /\ t_begin' = begin_t
    /\ t_end' = end_t
    /\ dt_go' = Minus(end_t, begin_t)
    /\ lag_comp_data' = IF debug THEN copy_state_from_entity(entity)
                                 ELSE lag_comp_data
    /\ Q_dot' = compute_Q_dot(lag_comp_data'.quat_scalar,
                              lag_comp_data'.quat_vector, lag_comp_data'.ang_vel)
    /\ integ_t' = begin_t
    /\ integrator' = [ integrator EXCEPT !.time = begin_t ]
    /\ compensate_dt' = Minus(end_t, begin_t)
    /\ cnt' = Emit(Bump(Bump(cnt, "compensate"), "copy_from"), debug)
    /\ pc' = "while"
    /\ UNCHANGED << other_vars, config, environment, entity, entry_locals, ipass, status >>

LC_compensate ==
    /\ pc = "call" /\ variant = "LC"
    /\ t_begin' = begin_t
    /\ t_end' = end_t
    /\ dt_go' = Minus(end_t, begin_t)
    /\ lag_comp_data' = copy_state_from_entity(entity)
    /\ Q_dot' = compute_Q_dot(lag_comp_data'.quat_scalar,
                              lag_comp_data'.quat_vector, lag_comp_data'.ang_vel)
    /\ integ_t' = begin_t
    /\ integrator' = [ integrator EXCEPT !.time = begin_t ]
    /\ compensate_dt' = Minus(end_t, begin_t)
    /\ cnt' = Emit(Bump(Bump(cnt, "compensate"), "copy_from"), debug)
    /\ pc' = "while"
    /\ UNCHANGED << other_vars, config, environment, entity, entry_locals, ipass, status >>

\* A loop guard without the sign test.
LC_while_cond_no_sign == fabs(dt_go) > integ_tol

LC_while_cond == (dt_go >= 0) /\ (fabs(dt_go) > integ_tol)

LC_while ==
    /\ pc = "while" /\ variant = "LC"
    /\ pc' = IF LC_while_cond THEN "load" ELSE "finish"
    /\ UNCHANGED << other_vars, config, environment, entity, lag_comp_data, Q_dot, integ_t,
                    compensate_dt, integrator, entry_locals, comp_locals, cnt >>

\* The Q_dot that load() computes from the stepper's state.
load_Q_dot(st) ==
    compute_Q_dot(st[7], << st[8], st[9], st[10] >>, << st[11], st[12], st[13] >>)

\* load() as a function of the buffer lcd and the stepper stp: slots
\* 0..LoadSlots-1 are copied into the stepper's state, Q_dot is computed from
\* the stepper's state, and all 13 derivatives are set.
load(lcd, stp, acc, racc) ==
    LET st == [ i \in 1..NumStates |->
                  IF i <= LoadSlots THEN integ_states(lcd)[i] ELSE stp.state[i] ]
        qd == load_Q_dot(st)
    IN  [ stp EXCEPT
            !.state = st,
            !.deriv = << st[4], st[5], st[6],
                         acc[1], acc[2], acc[3],
                         qd.scalar, qd.vector[1], qd.vector[2], qd.vector[3],
                         racc[1], racc[2], racc[3] >> ]

LC_load ==
    /\ pc = "load" /\ variant = "LC" /\ cnt.load < MaxPasses
    /\ integrator' = load(lag_comp_data, integrator, accel, rot_accel)
    /\ Q_dot' = load_Q_dot(integrator'.state)
    /\ ipass' = 0
    /\ cnt' = Bump(cnt, "load")
    /\ pc' = "step"
    /\ UNCHANGED << other_vars, config, environment, entity, lag_comp_data, integ_t,
                    compensate_dt, entry_locals, t_begin, t_end, dt_go, status >>

\* A step that always takes the fixed step, also near the end.
LC_step_dt_fixed == integ_dt

LC_step_dt == IF dt_go > integ_dt THEN integ_dt ELSE dt_go

\* The Trick Euler stepper with dt = h: every state advances by deriv * dt
\* and the time by dt, in a single pass.
Euler_integrate(stp, h) ==
    [ stp EXCEPT !.dt = h,
                 !.state = [ i \in 1..NumStates |-> stp.state[i] + stp.deriv[i] * h ],
                 !.time = @ + h ]

\* integrator->dt is set and integrator->integrate() is called; it returns 0.
LC_integrate ==
    /\ pc = "step" /\ variant = "LC"
    /\ integrator' = Euler_integrate(integrator, LC_step_dt)
    /\ ipass' = 0
    /\ cnt' = Bump(cnt, "integrate")
    /\ pc' = "unload"
    /\ UNCHANGED << other_vars, config, environment, entity, lag_comp_data, Q_dot, integ_t,
                    compensate_dt, entry_locals, t_begin, t_end, dt_go, status >>

\* An unload that treats the accelerations as consumed and clears them.
LC_unload_clears_accelerations ==
    /\ pc = "unload" /\ variant = "LC"
    /\ lag_comp_data' = store_states(lag_comp_data, integrator.state, UnloadSlots)
    /\ Q_dot' = compute_Q_dot(lag_comp_data'.quat_scalar,
                              lag_comp_data'.quat_vector, lag_comp_data'.ang_vel)
    /\ accel' = Zero3 /\ rot_accel' = Zero3
    /\ cnt' = Bump(cnt, "unload")
    /\ pc' = IF ipass # 0 THEN "load" ELSE "update"
    /\ UNCHANGED << other_vars, settings, environment, entity, integ_t,
                    compensate_dt, integrator, entry_locals, comp_locals >>

\* unload() as a function of the buffer lcd and the stepper stp: slots
\* 0..UnloadSlots-1 are copied back.
unload(lcd, stp) == store_states(lcd, stp.state, UnloadSlots)

\* unload(): the slots are copied back, Q_dot is recomputed from the buffer;
\* the pass loop repeats while ipass is non-zero.
LC_unload ==
    /\ pc = "unload" /\ variant = "LC"
    /\ lag_comp_data' = unload(lag_comp_data, integrator)
    /\ Q_dot' = compute_Q_dot(lag_comp_data'.quat_scalar,
                              lag_comp_data'.quat_vector, lag_comp_data'.ang_vel)
    /\ cnt' = Bump(cnt, "unload")
    /\ pc' = IF ipass # 0 THEN "load" ELSE "update"
    /\ UNCHANGED << other_vars, config, environment, entity, integ_t, compensate_dt,
                    integrator, entry_locals, comp_locals >>

\* An update that advances the time but leaves the remaining interval as it was.
LC_update_time_keeps_remaining ==
    /\ pc = "update" /\ variant = "LC"
    /\ integ_t' = integrator.time
    /\ dt_go' = dt_go
    /\ cnt' = Emit([ Bump(cnt, "steps") EXCEPT !.sizes = Append(@, integrator.dt) ],
                   debug)
    /\ pc' = "while"
    /\ UNCHANGED << other_vars, config, environment, entity, lag_comp_data, Q_dot,
                    compensate_dt, integrator, entry_locals, t_begin, t_end,
                    ipass, status >>

LC_update_time ==
    /\ pc = "update" /\ variant = "LC"
    /\ integ_t' = integrator.time
    /\ dt_go' = t_end - integrator.time
    /\ cnt' = Emit([ Bump(cnt, "steps") EXCEPT !.sizes = Append(@, integrator.dt) ],
                   debug)
    /\ pc' = "while"
    /\ UNCHANGED << other_vars, config, environment, entity, lag_comp_data, Q_dot,
                    compensate_dt, integrator, entry_locals, t_begin, t_end,
                    ipass, status >>

\* A return that records the requested end time instead of the time reached.
LC_compensate_return_t_end ==
    /\ pc = "finish" /\ variant = "LC"
    /\ lag_comp_data' = [ lag_comp_data EXCEPT !.time = t_end ]
    /\ Q_dot' = compute_Q_dot(lag_comp_data.quat_scalar,
                              lag_comp_data.quat_vector, lag_comp_data.ang_vel)
    /\ status' = 0
    /\ cnt' = Emit(cnt, debug)
    /\ pc' = "ret"
    /\ UNCHANGED << other_vars, config, environment, entity, integ_t, compensate_dt,
                    integrator, entry_locals,
                    t_begin, t_end, dt_go, ipass >>

LC_compensate_return ==
    /\ pc = "finish" /\ variant = "LC"
    /\ lag_comp_data' = [ lag_comp_data EXCEPT !.time = integ_t ]
    /\ Q_dot' = compute_Q_dot(lag_comp_data.quat_scalar,
                              lag_comp_data.quat_vector, lag_comp_data.ang_vel)
    /\ status' = 0
    /\ cnt' = Emit(cnt, debug)
    /\ pc' = "ret"
    /\ UNCHANGED << other_vars, config, environment, entity, integ_t, compensate_dt,
                    integrator, entry_locals,
                    t_begin, t_end, dt_go, ipass >>

\* After compensate (or after the gate skipped it) both entry points of this
\* class copy the buffer onto the entity.
LC_send_return ==
    /\ pc = "ret" /\ variant = "LC" /\ mode = "send"
    /\ entity' = copy_state_to_entity(lag_comp_data)
    /\ cnt' = Bump(cnt, "copy_to")
    /\ pc' = "done"
    /\ UNCHANGED << other_vars, config, environment, lag_comp_data, Q_dot, integ_t,
                    compensate_dt, integrator, entry_locals, comp_locals >>

LC_receive_return ==
    /\ pc = "ret" /\ variant = "LC" /\ mode = "recv"
    /\ entity' = copy_state_to_entity(lag_comp_data)
    /\ cnt' = Bump(cnt, "copy_to")
    /\ pc' = "done"
    /\ UNCHANGED << other_vars, config, environment, lag_comp_data, Q_dot, integ_t,
                    compensate_dt, integrator, entry_locals, comp_locals >>

\* ~PhysicalEntityLagComp(): the stepper is freed and the pointer set to NULL.
\* The object is destroyed between calls, never inside one; the locals and
\* the records of the previous call are gone by then.
LC_destructor ==
    /\ pc \in { "constructed", "idle", "done" } /\ variant = "LC"
    /\ integrator' = [ integrator EXCEPT !.ok = FALSE ]
    /\ pc' = "destroyed"
    /\ mode' = "none"
    /\ begin_t' = 0 /\ end_t' = 0
    /\ t_begin' = 0 /\ t_end' = 0 /\ dt_go' = 0 /\ ipass' = 0 /\ status' = -1
    /\ entity0' = entity
    /\ lag0' = lag_comp_data
    /\ slot12_0' = integrator'.state[NumStates]
    /\ cnt' = ZeroCounts
    /\ UNCHANGED << other_vars, config, environment, entity, lag_comp_data, Q_dot, integ_t,
                    compensate_dt, cycles >>

\* ======================================================================
\* LagCompensationInteg
\* ======================================================================
\* The class leaves its stepper NULL; the owner of the concrete compensator
\* assigns one before the loop is used.
LCI_initialize ==
    /\ pc = "constructed" /\ variant = "LCI"
    /\ \E n \in 1..MaxStages :
         integrator' = [ integrator EXCEPT !.ok = TRUE, !.stages = n ]
    /\ pc' = "idle"
    /\ UNCHANGED << other_vars, config, environment, entity, lag_comp_data, Q_dot, integ_t,
                    compensate_dt, entry_locals, comp_locals, cnt >>

\* Intervals t_end - t_begin the generic loop is called with: backward, empty,
\* one step and more than one step.
IntegrateIntervals == (0 - 1)..(MaxLookahead + 1)

\* The concrete compensator calls integrate( t_begin, t_end ).
LCI_call ==
    /\ Idle /\ variant = "LCI" /\ cycles < MaxCycles
    /\ \E tb \in ScenarioTimes, d \in IntegrateIntervals :
         /\ begin_t' = tb
         /\ end_t' = tb + d
    /\ EnterCycle("integ")
    /\ pc' = "call"
    /\ UNCHANGED << other_vars, config, environment, entity, lag_comp_data, Q_dot, integ_t,
                    compensate_dt, integrator, t_begin, t_end, dt_go, ipass >>

\* integrate(): compensate_dt = t_end - t_begin; dt_go = compensate_dt;
\* integ_t = t_begin; integrator->time = 0.0
LCI_integrate ==
    /\ pc = "call" /\ variant = "LCI"
    /\ t_begin' = begin_t
    /\ t_end' = end_t
    /\ compensate_dt' = end_t - begin_t
    /\ dt_go' = end_t - begin_t
    /\ integ_t' = begin_t
    /\ integrator' = [ integrator EXCEPT !.time = 0 ]
    /\ cnt' = Bump(cnt, "compensate")
    /\ pc' = "while"
    /\ UNCHANGED << other_vars, config, environment, entity, lag_comp_data, Q_dot,
                    entry_locals, ipass, status >>

\* A loop guard that lets a remaining interval equal to the tolerance through.
LCI_while_cond_inclusive == (dt_go >= 0) /\ (fabs(dt_go) >= integ_tol)

\* while ( ( dt_go >= 0.0 ) && ( fabs( dt_go ) > integ_tol ) )
LCI_while_cond == (dt_go >= 0) /\ (fabs(dt_go) > integ_tol)

LCI_while ==
    /\ pc = "while" /\ variant = "LCI"
    /\ pc' = IF LCI_while_cond THEN "deriv" ELSE "finish"
    /\ UNCHANGED << other_vars, config, environment, entity, lag_comp_data, Q_dot, integ_t,
                    compensate_dt, integrator, entry_locals, comp_locals, cnt >>

\* do { ipass = 0; derivative_first( this ); ...
LCI_derivative_first ==
    /\ pc = "deriv" /\ variant = "LCI" /\ cnt.load < MaxPasses
    /\ ipass' = 0
    /\ cnt' = Call(Bump(cnt, "derivative_first"), "derivative_first")
    /\ pc' = "load"
    /\ UNCHANGED << other_vars, config, environment, entity, lag_comp_data, Q_dot, integ_t,
                    compensate_dt, integrator, entry_locals, t_begin, t_end,
                    dt_go, status >>

\* ... load(); ...
LCI_load ==
    /\ pc = "load" /\ variant = "LCI"
    /\ cnt' = Call(Bump(cnt, "load"), "load")
    /\ pc' = "step"
    /\ UNCHANGED << other_vars, config, environment, entity, lag_comp_data, Q_dot, integ_t,
                    compensate_dt, integrator, entry_locals, comp_locals >>

\* A step that is always the fixed step, also when less remains.
LCI_step_dt_whole_step == integ_dt

\* if ( dt_go > integ_dt ) integrator->dt = integ_dt; else integrator->dt = dt_go;
LCI_step_dt == IF dt_go > integ_dt THEN integ_dt ELSE dt_go

\* A pass loop that requests all that remains in the passes after the first.
LCI_stepper_integrate_remaining_later ==
    /\ pc = "step" /\ variant = "LCI"
    /\ LET h == IF integrator.intermediate_step > 0 THEN dt_go ELSE LCI_step_dt
           last == integrator.intermediate_step + 1 >= integrator.stages
       IN  /\ integrator' = [ integrator EXCEPT
                                !.dt = h,
                                !.intermediate_step = IF last THEN 0 ELSE @ + 1,
                                !.time = IF last THEN @ + h ELSE @ ]
           /\ ipass' = IF last THEN 0 ELSE integrator.intermediate_step + 1
    /\ cnt' = Call(Bump(cnt, "integrate"), "integrate")
    /\ pc' = "unload"
    /\ UNCHANGED << other_vars, config, environment, entity, lag_comp_data, Q_dot, integ_t,
                    compensate_dt, entry_locals, t_begin, t_end, dt_go, status >>

\* ... integrator->dt = ...; ipass = integrator->integrate(); ...
\* The stepper works through its passes: every pass but the last returns
\* non-zero, the last one advances the stepper's time by dt and returns 0.
LCI_stepper_integrate ==
    /\ pc = "step" /\ variant = "LCI"
    /\ LET h == LCI_step_dt
           last == integrator.intermediate_step + 1 >= integrator.stages
       IN  /\ integrator' = [ integrator EXCEPT
                                !.dt = h,
                                !.intermediate_step = IF last THEN 0 ELSE @ + 1,
                                !.time = IF last THEN @ + h ELSE @ ]
           /\ ipass' = IF last THEN 0 ELSE integrator.intermediate_step + 1
    /\ cnt' = Call(Bump(cnt, "integrate"), "integrate")
    /\ pc' = "unload"
    /\ UNCHANGED << other_vars, config, environment, entity, lag_comp_data, Q_dot, integ_t,
                    compensate_dt, entry_locals, t_begin, t_end, dt_go, status >>

\* A pass loop that leaves after one pass whatever the stepper returned.
LCI_unload_single_pass ==
    /\ pc = "unload" /\ variant = "LCI"
    /\ cnt' = Call(Bump(cnt, "unload"), "unload")
    /\ pc' = "update"
    /\ UNCHANGED << other_vars, config, environment, entity, lag_comp_data, Q_dot, integ_t,
                    compensate_dt, integrator, entry_locals, comp_locals >>

\* ... unload(); } while ( ipass );
LCI_unload ==
    /\ pc = "unload" /\ variant = "LCI"
    /\ cnt' = Call(Bump(cnt, "unload"), "unload")
    /\ pc' = IF ipass # 0 THEN "deriv" ELSE "update"
    /\ UNCHANGED << other_vars, config, environment, entity, lag_comp_data, Q_dot, integ_t,
                    compensate_dt, integrator, entry_locals, comp_locals >>

\* A loop that forgets that the stepper's clock started at zero.
LCI_update_absolute_clock ==
    /\ pc = "update" /\ variant = "LCI"
    /\ integ_t' = integrator.time
    /\ dt_go' = t_end - integrator.time
    /\ cnt' = [ Bump(cnt, "steps") EXCEPT !.sizes = Append(@, integrator.dt) ]
    /\ pc' = "while"
    /\ UNCHANGED << other_vars, config, environment, entity, lag_comp_data, Q_dot,
                    compensate_dt, integrator, entry_locals, t_begin, t_end,
                    ipass, status >>

\* integ_t = t_begin + integrator->time; dt_go = compensate_dt - integrator->time
LCI_update ==
    /\ pc = "update" /\ variant = "LCI"
    /\ integ_t' = t_begin + integrator.time
    /\ dt_go' = compensate_dt - integrator.time
    /\ cnt' = [ Bump(cnt, "steps") EXCEPT !.sizes = Append(@, integrator.dt) ]
    /\ pc' = "while"
    /\ UNCHANGED << other_vars, config, environment, entity, lag_comp_data, Q_dot,
                    compensate_dt, integrator, entry_locals, t_begin, t_end,
                    ipass, status >>

\* The hook update_time(): the final integration time is committed to the
\* domain object.
update_time(d, t) == [ d EXCEPT !.time = t ]

\* A loop that commits the time only when it has taken a step.
LCI_update_time_after_steps_only ==
    /\ pc = "finish" /\ variant = "LCI"
    /\ lag_comp_data' = IF cnt.steps > 0 THEN update_time(lag_comp_data, integ_t)
                                         ELSE lag_comp_data
    /\ cnt' = IF cnt.steps > 0
              THEN Call(Bump(cnt, "update_time"), "update_time") ELSE cnt
    /\ pc' = "last"
    /\ UNCHANGED << other_vars, config, environment, entity, Q_dot, integ_t, compensate_dt,
                    integrator, entry_locals, comp_locals >>

\* this->update_time() once the loop has ended
LCI_update_time ==
    /\ pc = "finish" /\ variant = "LCI"
    /\ lag_comp_data' = update_time(lag_comp_data, integ_t)
    /\ cnt' = Call(Bump(cnt, "update_time"), "update_time")
    /\ pc' = "last"
    /\ UNCHANGED << other_vars, config, environment, entity, Q_dot, integ_t, compensate_dt,
                    integrator, entry_locals, comp_locals >>

\* derivative_first( this ) for the final state; return( 0 )
LCI_derivative_final ==
    /\ pc = "last" /\ variant = "LCI"
    /\ cnt' = Call(Bump(cnt, "derivative_first"), "derivative_first")
    /\ status' = 0
    /\ pc' = "ret"
    /\ UNCHANGED << other_vars, config, environment, entity, lag_comp_data, Q_dot, integ_t,
                    compensate_dt, integrator, entry_locals, t_begin, t_end,
                    dt_go, ipass >>

LCI_return ==
    /\ pc = "ret" /\ variant = "LCI"
    /\ pc' = "done"
    /\ UNCHANGED << other_vars, config, environment, entity, lag_comp_data, Q_dot, integ_t,
                    compensate_dt, integrator, entry_locals, comp_locals, cnt >>

\* ======================================================================
\* LagCompensation: the entry points of a class that did not override them
\* ======================================================================
\* LagCompensation::send_lag_compensation(): the error message is built and
\* DebugHandler::terminate_with_message ends the program.
Base_send_lag_compensation ==
    /\ pc = "constructed" /\ variant = "Base"
    /\ mode' = "base_send"
    /\ pc' = "terminated"
    /\ UNCHANGED << other_vars, config, environment, entity, lag_comp_data, Q_dot, integ_t,
                    compensate_dt, integrator, begin_t, end_t, entity0, lag0,
                    slot12_0, cycles, comp_locals, cnt >>

\* A base entry point that returns to its caller without doing anything.
Base_receive_lag_compensation_returns ==
    /\ pc = "constructed" /\ variant = "Base"
    /\ mode' = "base_recv"
    /\ pc' = "done"
    /\ UNCHANGED << other_vars, config, environment, entity, lag_comp_data, Q_dot, integ_t,
                    compensate_dt, integrator, begin_t, end_t, entity0, lag0,
                    slot12_0, cycles, comp_locals, cnt >>

\* LagCompensation::receive_lag_compensation(): the error message is built
\* and DebugHandler::terminate_with_message ends the program.
Base_receive_lag_compensation ==
    /\ pc = "constructed" /\ variant = "Base"
    /\ mode' = "base_recv"
    /\ pc' = "terminated"
    /\ UNCHANGED << other_vars, config, environment, entity, lag_comp_data, Q_dot, integ_t,
                    compensate_dt, integrator, begin_t, end_t, entity0, lag0,
                    slot12_0, cycles, comp_locals, cnt >>

\* ------------------------------------------------------------ behaviours
Next ==
    \/ process_input_file
    \/ EntityUpdate
    \/ SA_initialize
    \/ SA_send_lag_compensation
    \/ SA_receive_lag_compensation
    \/ SA_compensate
    \/ SA_while
    \/ SA_load
    \/ SA_variable_step
    \/ SA_unload
    \/ SA_update_time
    \/ SA_compensate_return
    \/ SA_return
    \/ LC_initialize
    \/ LC_send_lag_compensation
    \/ LC_receive_lag_compensation
    \/ LC_compensate
    \/ LC_while
    \/ LC_load
    \/ LC_integrate
    \/ LC_unload
    \/ LC_update_time
    \/ LC_compensate_return
    \/ LC_send_return
    \/ LC_receive_return
    \/ LC_destructor
    \/ LCI_initialize
    \/ LCI_call
    \/ LCI_integrate
    \/ LCI_while
    \/ LCI_derivative_first
    \/ LCI_load
    \/ LCI_stepper_integrate
    \/ LCI_unload
    \/ LCI_update
    \/ LCI_update_time
    \/ LCI_derivative_final
    \/ LCI_return
    \/ Base_send_lag_compensation
    \/ Base_receive_lag_compensation

Spec == Init /\ [][Next]_vars

\* The steps of a running call.  compensate() and integrate() are straight-line
\* code run by the job that called them: once a call is entered the thread
\* goes on executing it, so a step that stays possible is eventually taken.
CallStep ==
    \/ SA_compensate \/ SA_while \/ SA_load \/ SA_variable_step \/ SA_unload
    \/ SA_update_time \/ SA_compensate_return \/ SA_return
    \/ LC_compensate \/ LC_while \/ LC_load \/ LC_integrate \/ LC_unload
    \/ LC_update_time \/ LC_compensate_return \/ LC_send_return
    \/ LC_receive_return
    \/ LCI_integrate \/ LCI_while \/ LCI_derivative_first \/ LCI_load
    \/ LCI_stepper_integrate \/ LCI_unload \/ LCI_update \/ LCI_update_time
    \/ LCI_derivative_final \/ LCI_return

\* Whether a call returns does not depend on the calls before it: the fair
\* behaviours follow the object from its construction through one call.
FairInit ==
    /\ New(InputFiles) /\ cycles = MaxCycles - 1
    /\ AttrConstructed /\ PairAbsent /\ IdentConstructed

FairSpec == FairInit /\ [][Next]_vars /\ WF_vars(CallStep)

\* Runs with the default step control whose input files differ in the
\* diagnostics they switch on.
DebugInputFiles ==
    [ integ_dt : { IntegDtDefault }, integ_tol : { IntegTolDefault },
      debug : BOOLEAN, show_trace : BOOLEAN ]

DebugInit ==
    /\ New(DebugInputFiles) /\ cycles = 0
    /\ AttrConstructed /\ PairAbsent /\ IdentConstructed

DebugSpec == DebugInit /\ [][Next]_vars

\* Runs of compensators with and without a federate: a compensator has no
\* federate when it has no object or its object has none.
AnyFederateInit ==
    /\ Built(InputFiles) /\ federate \in BOOLEAN /\ cycles = 0
    /\ AttrConstructed /\ PairAbsent /\ IdentConstructed

AnyFederateSpec == AnyFederateInit /\ [][Next]_vars

\* ======================================================================
\* Attribute lookup: LagCompensation::get_attribute_and_validate and
\* PhysicalEntityBase::initialize_callback
\* ======================================================================
\* TrickHLA::Object instances the callback is given: the nine attributes of
\* a PhysicalEntity, of which up to MaxMissing are not configured.
Objects ==
    { [ present |-> TRUE, attributes |-> AttributeNameSet \ m ] :
        m \in { x \in SUBSET AttributeNameSet : Cardinality(x) <= MaxMissing } }

\* Names a caller passes: the nine, a name no object has, and NULL.
LookupNames == AttributeNameSet \cup { "no_such_attribute", NULL }

\* object->get_attribute( attr_FOM_name ): the attribute of that name, or NULL.
\* An attribute is identified by its FOM name.
get_attribute(obj, attr_FOM_name) ==
    IF attr_FOM_name \in obj.attributes THEN attr_FOM_name ELSE NULL

\* A validation that tests the name but not the attribute it found.
get_attribute_and_validate_name_only(obj, attr_FOM_name) ==
    IF attr_FOM_name = NULL
    THEN [ terminated |-> TRUE, attr |-> NULL ]
    ELSE [ terminated |-> FALSE, attr |-> get_attribute(obj, attr_FOM_name) ]

\* get_attribute_and_validate(): terminate_with_message() on a NULL name and
\* on an attribute that is not found (it does not return), else the attribute.
get_attribute_and_validate(obj, attr_FOM_name) ==
    IF attr_FOM_name = NULL
    THEN [ terminated |-> TRUE, attr |-> NULL ]
    ELSE LET attr == get_attribute(obj, attr_FOM_name)
         IN  IF attr = NULL
             THEN [ terminated |-> TRUE, attr |-> NULL ]
             ELSE [ terminated |-> FALSE, attr |-> attr ]

\* initialize_callback( obj ): Packing::initialize_callback attaches the object.
PEB_initialize_callback ==
    /\ cb_pc = "constructed"
    /\ \E obj \in Objects : object' = obj
    /\ cb_pc' = "lookup"
    /\ UNCHANGED << compensator_vars, pair_vars, ident_vars, attr_refs, cb_next, lookup >>

\* The next of the nine assignments  x_attr = get_attribute_and_validate( "x" ).
PEB_lookup ==
    /\ cb_pc = "lookup"
    /\ LET r == get_attribute_and_validate(object, AttributeFOMNames[cb_next])
       IN  IF r.terminated
           THEN /\ cb_pc' = "terminated"
                /\ UNCHANGED << attr_refs, cb_next >>
           ELSE /\ attr_refs' = [ attr_refs EXCEPT ![cb_next] = r.attr ]
                /\ cb_next' = cb_next + 1
                /\ cb_pc' = IF cb_next = Len(AttributeFOMNames)
                            THEN "initialized" ELSE "lookup"
    /\ UNCHANGED << compensator_vars, pair_vars, ident_vars, object, lookup >>

\* A separate call of get_attribute_and_validate( name ) on the attached
\* object, with any name.
Validate_call ==
    /\ cb_pc \in { "lookup", "initialized" }
    /\ \E n \in LookupNames :
         LET r == get_attribute_and_validate(object, n)
         IN  /\ lookup' = [ called |-> TRUE, name |-> n,
                            terminated |-> r.terminated, attr |-> r.attr ]
             /\ cb_pc' = IF r.terminated THEN "terminated" ELSE cb_pc
    /\ UNCHANGED << compensator_vars, pair_vars, ident_vars, object, attr_refs, cb_next >>

\* The compensator that stays as constructed while the lookups run.
CompensatorConstructed ==
    /\ New(InputFiles) /\ cycles = 0
    /\ variant = "LC"
    /\ input_file.integ_dt = IntegDtDefault /\ input_file.integ_tol = IntegTolDefault
    /\ lookahead = 0
    /\ entity.ang_vel = Zero3

AttrInit == CompensatorConstructed /\ AttrConstructed /\ PairAbsent /\ IdentConstructed

AttrNext ==
    \/ PEB_initialize_callback
    \/ PEB_lookup
    \/ Validate_call

AttrSpec == AttrInit /\ [][AttrNext]_vars

\* ======================================================================
\* Two entities, each with its own PhysicalEntityLagComp, whose cycles are
\* interleaved step by step (sim objects on different child threads)
\* ======================================================================
Entities == { "A", "B" }

\* A stepper as Trick::getIntegrator( Euler, 26, integ_dt ) hands it out.
FreshStepper ==
    [ ok |-> TRUE, time |-> 0, dt |-> integ_dt, state |-> ZeroVector,
      deriv |-> ZeroVector, stages |-> 1, intermediate_step |-> 0 ]

\* A getIntegrator that hands every caller the same stepper.
getIntegrator_shared(h) == 1

\* Trick::getIntegrator: a newly allocated stepper (its place on the heap).
getIntegrator(h) == Len(h) + 1

\* An entity and its compensator right after construction; the interval of
\* its send cycle is [0, t_end].
PairConstructed ==
    { [ pc |-> "constructed", entity |-> s, entity0 |-> s, lag |-> ZeroState,
        Q_dot |-> [ scalar |-> 0, vector |-> Zero3 ],
        accel |-> a.accel, rot_accel |-> a.rot_accel,
        t_begin |-> 0, t_end |-> d, integ_t |-> 0, dt_go |-> 0,
        integrator |-> 0 ] :
        s \in Snapshots, a \in Accelerations, d \in 1..MaxLookahead }

\* The stepper of entity e.
Stepper(e) == heap[comp[e].integrator]

P_while_cond(go) == (go >= 0) /\ (fabs(go) > integ_tol)

P_step_dt(go) == IF go > integ_dt THEN integ_dt ELSE go

\* initialize() of the compensator of entity e.
P_initialize(e) ==
    /\ comp[e].pc = "constructed"
    /\ LET ptr == getIntegrator(heap)
       IN  /\ heap' = IF ptr > Len(heap) THEN Append(heap, FreshStepper) ELSE heap
           /\ comp' = [ comp EXCEPT ![e].integrator = ptr, ![e].pc = "idle" ]
    /\ UNCHANGED << compensator_vars, attr_vars, ident_vars >>

\* send_lag_compensation() of e up to the first test of the loop.
P_compensate(e) ==
    /\ comp[e].pc = "idle"
    /\ LET c == comp[e]
           lcd == copy_state_from_entity(c.entity)
           go == c.t_end - c.t_begin
       IN  /\ comp' = [ comp EXCEPT
                  ![e].lag = lcd,
                  ![e].Q_dot = compute_Q_dot(lcd.quat_scalar, lcd.quat_vector,
                                             lcd.ang_vel),
                  ![e].integ_t = c.t_begin,
                  ![e].dt_go = go,
                  ![e].pc = IF P_while_cond(go) THEN "load" ELSE "finish" ]
           /\ heap' = [ heap EXCEPT ![c.integrator].time = c.t_begin ]
    /\ UNCHANGED << compensator_vars, attr_vars, ident_vars >>

P_load(e) ==
    /\ comp[e].pc = "load"
    /\ LET c == comp[e]
           stp == load(c.lag, Stepper(e), c.accel, c.rot_accel)
       IN  /\ heap' = [ heap EXCEPT ![c.integrator] = stp ]
           /\ comp' = [ comp EXCEPT ![e].Q_dot = load_Q_dot(stp.state),
                                    ![e].pc = "step" ]
    /\ UNCHANGED << compensator_vars, attr_vars, ident_vars >>

P_integrate(e) ==
    /\ comp[e].pc = "step"
    /\ heap' = [ heap EXCEPT ![comp[e].integrator] =
                   Euler_integrate(Stepper(e), P_step_dt(comp[e].dt_go)) ]
    /\ comp' = [ comp EXCEPT ![e].pc = "unload" ]
    /\ UNCHANGED << compensator_vars, attr_vars, ident_vars >>

P_unload(e) ==
    /\ comp[e].pc = "unload"
    /\ LET lcd == unload(comp[e].lag, Stepper(e))
       IN  comp' = [ comp EXCEPT
               ![e].lag = lcd,
               ![e].Q_dot = compute_Q_dot(lcd.quat_scalar, lcd.quat_vector,
                                          lcd.ang_vel),
               ![e].pc = "update" ]
    /\ UNCHANGED << compensator_vars, attr_vars, ident_vars, heap >>

\* integ_t = integrator->time; dt_go = t_end - integ_t; the loop test.
P_update_time(e) ==
    /\ comp[e].pc = "update"
    /\ LET t == Stepper(e).time
           go == comp[e].t_end - t
       IN  comp' = [ comp EXCEPT
               ![e].integ_t = t,
               ![e].dt_go = go,
               ![e].pc = IF P_while_cond(go) THEN "load" ELSE "finish" ]
    /\ UNCHANGED << compensator_vars, attr_vars, ident_vars, heap >>

\* The end of compensate() and of send_lag_compensation(): the time is
\* recorded, Q_dot recomputed and the buffer copied onto the entity.
P_return(e) ==
    /\ comp[e].pc = "finish"
    /\ LET lcd == [ comp[e].lag EXCEPT !.time = comp[e].integ_t ]
       IN  comp' = [ comp EXCEPT
               ![e].lag = lcd,
               ![e].Q_dot = compute_Q_dot(lcd.quat_scalar, lcd.quat_vector,
                                          lcd.ang_vel),
               ![e].entity = copy_state_to_entity(lcd),
               ![e].pc = "done" ]
    /\ UNCHANGED << compensator_vars, attr_vars, ident_vars, heap >>

PairInit ==
    /\ CompensatorConstructed /\ AttrConstructed /\ IdentConstructed
    /\ comp \in [ Entities -> PairConstructed ]
    /\ heap = << >>

PairNext ==
    \E e \in Entities :
      \/ P_initialize(e)
      \/ P_compensate(e)
      \/ P_load(e)
      \/ P_integrate(e)
      \/ P_unload(e)
      \/ P_update_time(e)
      \/ P_return(e)

PairSpec == PairInit /\ [][PairNext]_vars

\* The whole loop of PhysicalEntityLagComp::compensate as a function of the
\* buffer lcd, the stepper stp, the time t reached and the end time te: the
\* buffer and the stepper the call ends with.
RECURSIVE LC_propagate(_, _, _, _, _, _)
LC_propagate(lcd, stp, t, te, acc, racc) ==
    IF P_while_cond(te - t)
    THEN LET s1 == Euler_integrate(load(lcd, stp, acc, racc), P_step_dt(te - t))
         IN  LC_propagate(unload(lcd, s1), s1, s1.time, te, acc, racc)
    ELSE [ lag |-> [ lcd EXCEPT !.time = t ], stp |-> stp ]

\* ======================================================================
\* The identifying fields of PhysicalEntityBase: name, type, status and
\* parent_frame, from the constructor through default_data(), the input file
\* and initialize()
\* ======================================================================
IdentFields == { "name", "type", "status", "parent_frame" }

\* Strings a caller or an input file gives: empty, or a value.
GivenStrings == { "", "given" }

\* Arguments entity_name and parent_entity_name of default_data().
NameArguments == GivenStrings \cup { NULL }

\* The fields of id that are NULL.
Unset(id) == { f \in IdentFields : id[f] = NULL }

\* An attribute that is subscribed whether or not it is published.
default_attribute_subscribed(FOM_name, publishes) ==
    [ FOM_name |-> FOM_name, publish |-> publishes, subscribe |-> TRUE,
      locally_owned |-> publishes ]

\* object->attributes[k]: publish = publishes, subscribe = !publishes,
\* locally_owned = publishes
default_attribute(FOM_name, publishes) ==
    [ FOM_name |-> FOM_name, publish |-> publishes, subscribe |-> ~publishes,
      locally_owned |-> publishes ]

\* The object as default_data() sets it up: attr_count = 9 and
\* attributes[0..8].
default_object(publishes) ==
    [ create_HLA_instance |-> publishes,
      attr_count |-> AttrCount,
      attributes |-> [ k \in 1..AttrCount |->
                         default_attribute(AttributeFOMNames[k], publishes) ] ]

\* default_data(): parent_frame is the given parent name or, without one, the
\* empty string; name is the given entity name, and without one
\* terminate_with_message() is called, which does not return.  The
\* default_data jobs run before the input file is read.
PEB_default_data ==
    /\ peb_pc = "constructed" /\ Unset(ident) = IdentFields
    /\ \E entity_name \in NameArguments, parent_entity_name \in NameArguments,
          publishes \in BOOLEAN :
         /\ pe_object' = IF entity_name # NULL THEN default_object(publishes)
                                               ELSE pe_object
         /\ ident' = [ ident EXCEPT
                         !.parent_frame = IF parent_entity_name # NULL
                                          THEN parent_entity_name ELSE "",
                         !.name = IF entity_name # NULL THEN entity_name ELSE @ ]
         /\ substituted' = IF parent_entity_name # NULL THEN substituted
                                                        ELSE substituted + 1
         /\ peb_pc' = IF entity_name # NULL THEN "defaulted" ELSE "terminated"
    /\ UNCHANGED << compensator_vars, attr_vars, pair_vars, initialized, hs >>

\* The input file assigns one of the fields (they can be overridden there).
PEB_input_file ==
    /\ peb_pc \in { "constructed", "defaulted" }
    /\ \E f \in IdentFields, v \in GivenStrings :
         ident' = [ ident EXCEPT ![f] = v ]
    /\ UNCHANGED << compensator_vars, attr_vars, pair_vars, initialized, peb_pc,
                    hs, substituted, pe_object >>

\* initialize(): every field that is NULL gets a warning through send_hs and
\* the empty string; initialized = true.
PEB_initialize ==
    /\ peb_pc \in { "constructed", "defaulted" }
    /\ ident' = [ f \in IdentFields |-> IF ident[f] = NULL THEN "" ELSE ident[f] ]
    /\ hs' = hs + Cardinality(Unset(ident))
    /\ substituted' = substituted + Cardinality(Unset(ident))
    /\ initialized' = TRUE
    /\ peb_pc' = "initialized"
    /\ UNCHANGED << compensator_vars, attr_vars, pair_vars, pe_object >>

IdentInit ==
    /\ CompensatorConstructed /\ AttrConstructed /\ PairAbsent
    /\ IdentConstructed

IdentNext ==
    \/ PEB_default_data
    \/ PEB_input_file
    \/ PEB_initialize

IdentSpec == IdentInit /\ [][IdentNext]_vars

\* ======================================================================
\* Properties
\* ======================================================================
Returned == pc \in { "ret", "done" }

\* The two rigid-body compensators (compensate), as opposed to the generic loop.
RigidBody == variant \in { "SA", "LC" }

Interval == t_end - t_begin

NoStepTaken == cnt.load = 0 /\ cnt.integrate = 0 /\ cnt.unload = 0 /\ cnt.steps = 0

\* C1: a call of receive_lag_compensation() while is_received() is false
\* leaves every kinematic field of the entity (position, velocity,
\* quaternion, angular velocity, time) as it was before the call, in both
\* compensator classes.
C1_GateLeavesEntityUnchanged ==
    (pc = "done" /\ mode = "recv" /\ ~received) => entity = entity0

\* C2: in a receive cycle compensate() runs if and only if the received flag
\* is true: with the flag false there is no copy-in, no load/step/unload and
\* the buffer (its time included) stays as it was; with the flag true
\* compensate(data_t, scenario_t) has run exactly once when the call returns.
C2_CompensateIffReceived ==
    mode = "recv" =>
      /\ ~received =>
           /\ cnt.compensate = 0 /\ cnt.copy_from = 0
           /\ NoStepTaken
           /\ lag_comp_data = lag0
           /\ Returned
      /\ received =>
           /\ cnt.compensate <= 1
           /\ cnt.compensate = 1 <=> pc # "call"
           /\ cnt.compensate = 1 => t_begin = entity0.time /\ t_end = scenario_t

C2_Witness ==
    /\ pc = "done" /\ mode = "recv" /\ ~received
    /\ cycles = 2 /\ lag0 # ZeroState

\* C3: in a receive cycle whose received flag is true, compensate(t0, t1)
\* runs with t0 the entity's time stamp and t1 the scenario time, and after
\* the call the entity's kinematic state equals lag_comp_data, in both
\* compensator classes.
C3_ReceivedResultOnEntity ==
    (pc = "done" /\ mode = "recv" /\ received) =>
      /\ cnt.compensate = 1
      /\ t_begin = entity0.time /\ t_end = scenario_t
      /\ entity = lag_comp_data

\* C4: send_lag_compensation() calls compensate(t0, t0 + lookahead) exactly
\* once with t0 the scenario time, and the buffering class then copies the
\* compensated result onto the entity.
C4_SendLookahead ==
    mode = "send" =>
      /\ cnt.compensate <= 1
      /\ cnt.compensate = 1 <=> pc # "call"
      /\ cnt.compensate = 1 =>
           t_begin = scenario_t /\ t_end = scenario_t + lookahead
      /\ (pc = "done" /\ variant = "LC") =>
           cnt.copy_to = 1 /\ entity = lag_comp_data

C4_Witness ==
    /\ pc = "done" /\ mode = "send" /\ variant = "LC"
    /\ lookahead > 0 /\ entity # entity0

\* C5: send_lag_compensation() of the SA class never writes the entity:
\* throughout a send cycle the entity is what it was at the call, while the
\* buffer changes.
C5_SASendLeavesEntity ==
    (variant = "SA" /\ mode = "send") => entity = entity0 /\ cnt.copy_to = 0

C5_Witness ==
    /\ variant = "SA" /\ mode = "send" /\ pc = "done" /\ cycles = 2
    /\ lag_comp_data # lag0
    /\ integ_states(lag_comp_data) # integ_states(entity)

\* C6: compensate(t, t) takes no integrator step and leaves position,
\* velocity, quaternion and angular velocity of the buffer equal to the values
\* copied in from the entity, with recorded time t.
C6_ZeroInterval ==
    (cnt.compensate = 1 /\ t_end = t_begin) =>
      /\ NoStepTaken
      /\ integ_states(lag_comp_data) = integ_states(entity0)
      /\ Returned => lag_comp_data.time = t_begin

C6_Witness ==
    /\ pc = "done" /\ cnt.compensate = 1 /\ t_end = t_begin
    /\ t_begin > 0 /\ lag_comp_data.ang_vel # Zero3

ExactMultiple == Interval >= 0 /\ Interval % integ_dt = 0

\* C7 as stated: for t_end - t_begin = N * integ_dt, N >= 0, the loop runs
\* exactly N main steps, each of size integ_dt, with N loads and N unloads
\* when the stepper is single-pass.
C7_StepCount ==
    (cnt.compensate = 1 /\ ExactMultiple) =>
      /\ pc \in { "unload", "update" } => integrator.dt = integ_dt
      /\ Returned =>
           /\ cnt.steps = Interval \div integ_dt
           /\ integrator.stages = 1 =>
                /\ cnt.load = Interval \div integ_dt
                /\ cnt.unload = Interval \div integ_dt

\* C7 amended: the same, provided the tolerance is smaller than the fixed
\* step (integ_tol < integ_dt).
C7_StepCountTolBelowStep ==
    (cnt.compensate = 1 /\ ExactMultiple /\ integ_tol < integ_dt) =>
      /\ pc \in { "unload", "update" } => integrator.dt = integ_dt
      /\ Returned =>
           /\ cnt.steps = Interval \div integ_dt
           /\ integrator.stages = 1 =>
                /\ cnt.load = Interval \div integ_dt
                /\ cnt.unload = Interval \div integ_dt

C7_Witness ==
    /\ pc = "done" /\ cnt.compensate = 1 /\ ExactMultiple
    /\ 0 < integ_tol /\ integ_tol < integ_dt
    /\ cnt.steps >= 2 /\ cnt.load = cnt.steps

\* C8: every step the loop requests has size min(dt_go, integ_dt) with
\* dt_go = t_end - integ_t, so it exceeds neither the fixed step nor the
\* remaining interval, and the loop body runs only while dt_go >= 0 and
\* dt_go > integ_tol.
C8_StepSize ==
    /\ pc \in { "load", "step", "unload", "update" } =>
         /\ dt_go >= 0 /\ dt_go > integ_tol
         /\ dt_go = t_end - integ_t
    /\ pc \in { "unload", "update" } =>
         /\ integrator.dt = Min(dt_go, integ_dt)
         /\ integrator.dt <= integ_dt
         /\ integrator.dt <= dt_go

C8_Witness ==
    /\ pc = "unload" /\ integrator.dt = dt_go /\ dt_go < integ_dt /\ cnt.load = 1

\* C9: when t_end - t_begin is zero, negative or not greater than integ_tol,
\* compensate() does no load/step/unload, returns 0, leaves the buffer equal
\* to the state copied from the entity and records t_begin as its time.
C9_NoStepInterval ==
    (cnt.compensate = 1 /\ Interval <= integ_tol) =>
      /\ NoStepTaken
      /\ integ_states(lag_comp_data) = integ_states(entity0)
      /\ Returned => status = 0 /\ lag_comp_data.time = t_begin

C9_Witness ==
    /\ pc = "done" /\ cnt.compensate = 1 /\ Interval < 0
    /\ status = 0 /\ lag_comp_data.vel # Zero3

\* C10: when compensate(t_begin, t_end) has returned with t_end >= t_begin,
\* lag_comp_data.time is the integrator's final time and
\* 0 <= t_end - lag_comp_data.time <= integ_tol; over the example interval
\* with the default step and tolerance the recorded time is the end time.
C10_RecordedTime ==
    (RigidBody /\ Returned /\ cnt.compensate = 1 /\ t_end >= t_begin) =>
      /\ lag_comp_data.time = integ_t
      /\ lag_comp_data.time = integrator.time
      /\ 0 <= t_end - lag_comp_data.time
      /\ t_end - lag_comp_data.time <= integ_tol
      /\ ( /\ t_begin = 0 /\ t_end = ExampleInterval
           /\ integ_dt = IntegDtDefault /\ integ_tol = IntegTolDefault )
         => lag_comp_data.time = ExampleInterval

C10_Witness ==
    /\ pc = "done" /\ cnt.compensate = 1
    /\ t_begin = 0 /\ t_end = ExampleInterval
    /\ integ_dt = IntegDtDefault /\ integ_tol = IntegTolDefault
    /\ cnt.steps = ExampleInterval
    /\ lag_comp_data.time = ExampleInterval


\* C11: a compensation cycle once started always completes: whatever the
\* interval, the fixed step (> 0) and the tolerance (>= 0), a call of
\* compensate() or integrate() that has been entered eventually leaves its
\* loop and returns.
C11_CallReturns == (pc = "call") ~> (pc = "ret")

C11_Witness ==
    /\ pc = "ret" /\ cnt.compensate = 1
    /\ cnt.steps >= 2 /\ cnt.load > cnt.steps


\* C12: after compensate() has returned, in both rigid-body classes, the
\* stored Q_dot is compute_Q_dot of the final compensated quaternion and
\* angular velocity of the buffer (it is recomputed after the last step).
C12_QdotOfFinalState ==
    (RigidBody /\ Returned /\ cnt.compensate = 1) =>
      Q_dot = compute_Q_dot(lag_comp_data.quat_scalar,
                            lag_comp_data.quat_vector, lag_comp_data.ang_vel)


\* C13: the state vector transfers all 13 slots: right after load() of the
\* buffering class the stepper's state holds each of the 13 aliased fields
\* of lag_comp_data, and right after unload() each of the 13 fields holds
\* the stepper's value, slot 12 (ang_vel[2]) included.
C13_AllSlotsTransferred ==
    variant = "LC" =>
      /\ pc = "step" => integrator.state = integ_states(lag_comp_data)
      /\ pc = "update" => integ_states(lag_comp_data) = integrator.state


\* The whole loop of PhysicalEntityLagCompSA::compensate as a function of the
\* state vector s at time t and the end time te: the state and time reached.
RECURSIVE SA_propagate(_, _, _)
SA_propagate(s, t, te) ==
    LET go == te - t
    IN  IF (go >= 0) /\ (fabs(go) > integ_tol)
        THEN LET h == IF go > integ_dt THEN integ_dt ELSE go
                 d == derivatives(s, accel, rot_accel)
             IN  SA_propagate([ i \in 1..NumStates |-> s[i] + d[i] * h ], t + h, te)
        ELSE [ state |-> s, time |-> t ]

\* What the SA class makes of the copied-in state of the current call.
SA_result == SA_propagate(integ_states(entity0), t_begin, t_end)

\* C14: the two rigid-body classes are equivalent: from the same entity
\* state, accelerations, integ_dt, integ_tol and interval, with single-stage
\* explicit steppers, the buffering class ends with the position, velocity,
\* quaternion, angular velocity and recorded time the SA class ends with,
\* also for non-zero ang_vel[2] and rot_accel[2].
C14_SameResult ==
    (RigidBody /\ Returned /\ cnt.compensate = 1) =>
      /\ integ_states(lag_comp_data) = SA_result.state
      /\ lag_comp_data.time = SA_result.time


\* The step control of PhysicalEntityLagComp::compensate as a function of the
\* start time t and the end time te: the sizes of the main steps and the
\* integration time reached.
RECURSIVE LC_step_control(_, _)
LC_step_control(t, te) ==
    LET go == te - t
    IN  IF (go >= 0) /\ (fabs(go) > integ_tol)
        THEN LET h == IF go > integ_dt THEN integ_dt ELSE go
                 rest == LC_step_control(t + h, te)
             IN  [ sizes |-> << h >> \o rest.sizes, time |-> rest.time ]
        ELSE [ sizes |-> << >>, time |-> t ]

\* C15: LagCompensationInteg::integrate() runs the step control of
\* PhysicalEntityLagComp::compensate(): for the same t_begin, t_end, integ_dt
\* and integ_tol it makes the same number of main steps of the same sizes and
\* ends with the same integ_t, although its stepper's clock starts at 0.
C15_SameStepControl ==
    (variant \in { "LC", "LCI" } /\ Returned /\ cnt.compensate = 1) =>
      /\ cnt.sizes = LC_step_control(t_begin, t_end).sizes
      /\ cnt.steps = Len(LC_step_control(t_begin, t_end).sizes)
      /\ integ_t = LC_step_control(t_begin, t_end).time

C15_Witness ==
    /\ variant = "LCI" /\ pc = "done" /\ cnt.compensate = 1
    /\ t_begin > 0 /\ cnt.steps >= 2 /\ integrator.time # integ_t


\* C16: a NULL stepper is fatal at initialization: initialize() of the
\* buffering class terminates whenever the integrator it obtained is NULL
\* (no entry point runs afterwards), and after a successful initialize() the
\* integrator is non-NULL until the compensator is destroyed.
C16_NullStepperFatal ==
    variant = "LC" =>
      /\ pc = "terminated" => ~integrator.ok /\ cycles = 0
      /\ pc \notin { "new", "constructed", "terminated", "destroyed" } =>
           integrator.ok
      /\ pc = "destroyed" => ~integrator.ok

C16_Witness ==
    /\ variant = "LC" /\ pc = "unload" /\ integrator.ok
    /\ cycles = MaxCycles /\ cnt.load >= 1


\* A returned call of compensate() of a rigid-body class on an entity that
\* does not rotate, with no accelerations.
ConstantVelocityCase ==
    /\ RigidBody /\ Returned /\ cnt.compensate = 1
    /\ accel = Zero3 /\ rot_accel = Zero3 /\ entity0.ang_vel = Zero3

\* The worked example: position (0,0,0), velocity (1,0,0), identity
\* quaternion over [0.0, 0.5] with the default step and tolerance.
ExampleCase ==
    /\ entity0.pos = Zero3 /\ entity0.vel = << 1, 0, 0 >>
    /\ entity0.quat_scalar = 1 /\ entity0.quat_vector = Zero3
    /\ t_begin = 0 /\ t_end = ExampleInterval
    /\ integ_dt = IntegDtDefault /\ integ_tol = IntegTolDefault

\* C18 as stated: with zero acceleration, zero rotational acceleration and
\* zero angular velocity, compensate(t0, t0 + D) yields position0 +
\* velocity * D with velocity and quaternion unchanged; the example ends at
\* position (0.5, 0, 0) after 10 steps.
C18_ConstantVelocity ==
    ConstantVelocityCase =>
      /\ lag_comp_data.pos =
           [ i \in 1..3 |-> entity0.pos[i] + entity0.vel[i] * Interval ]
      /\ lag_comp_data.vel = entity0.vel
      /\ lag_comp_data.quat_scalar = entity0.quat_scalar
      /\ lag_comp_data.quat_vector = entity0.quat_vector
      /\ ExampleCase =>
           lag_comp_data.pos = << ExampleInterval, 0, 0 >> /\ cnt.steps = ExampleInterval

\* A call of compensate() of a rigid-body class is running.
InCompensate ==
    RigidBody /\ pc \in { "call", "while", "load", "step", "unload", "update",
                           "finish" }

\* C19: the accelerations are inputs: no step of compensate(), load(),
\* unload() or derivatives() changes accel or rot_accel, and the derivatives
\* the stepper has been given in the current cycle are those accelerations.
C19_AccelerationsAreInputs ==
    /\ [][ InCompensate => (accel' = accel /\ rot_accel' = rot_accel) ]_vars
    /\ [](( RigidBody /\ pc \in { "unload", "update" } ) =>
            /\ << integrator.deriv[4], integrator.deriv[5], integrator.deriv[6] >>
                 = accel
            /\ << integrator.deriv[11], integrator.deriv[12], integrator.deriv[13] >>
                 = rot_accel)

C19_Witness ==
    /\ RigidBody /\ pc = "update" /\ cnt.steps >= 1
    /\ accel # Zero3 /\ rot_accel # Zero3
    /\ integrator.deriv[13] = rot_accel[3]


\* C20: an unresolved attribute name is fatal: get_attribute_and_validate()
\* terminates when the name is NULL or the object has no attribute of that
\* name and otherwise returns a non-NULL attribute; hence once
\* initialize_callback() has completed, all nine attribute references
\* (state_attr among them) are non-NULL.
C20_UnresolvedAttributeFatal ==
    /\ cb_pc = "initialized" =>
         \A k \in 1..Len(AttributeFOMNames) :
           /\ attr_refs[k] # NULL
           /\ attr_refs[k] = get_attribute(object, AttributeFOMNames[k])
    /\ cb_pc = "lookup" => \A k \in 1..(cb_next - 1) : attr_refs[k] # NULL
    /\ (cb_pc = "terminated" /\ ~lookup.called) =>
         AttributeFOMNames[cb_next] \notin object.attributes
    /\ lookup.called =>
         /\ lookup.terminated <=>
              (lookup.name = NULL \/ lookup.name \notin object.attributes)
         /\ lookup.terminated => cb_pc = "terminated"
         /\ ~lookup.terminated => lookup.attr # NULL /\ lookup.attr = lookup.name

C20_Witness ==
    /\ cb_pc = "initialized" /\ attr_refs[5] = "state"
    /\ lookup.called /\ ~lookup.terminated /\ lookup.name = "state"


\* What the cycle of entity e ends with when it runs alone on a stepper of
\* its own.
Alone(e) ==
    LC_propagate(copy_state_from_entity(comp[e].entity0),
                 [ FreshStepper EXCEPT !.time = comp[e].t_begin ],
                 comp[e].t_begin, comp[e].t_end, comp[e].accel, comp[e].rot_accel)

C21_MissingFieldsWarnOnly ==
    /\ peb_pc # "terminated"
    /\ hs = substituted
    /\ peb_pc = "defaulted" => ident.name # NULL /\ ident.parent_frame # NULL
    /\ peb_pc = "initialized" =>
         /\ \A f \in IdentFields : ident[f] # NULL
         /\ initialized

\* The stepper a call of the buffering class starts from, as far as the call
\* can see it: load() overwrites slots 0..11 and every derivative,
\* compensate() the time, so only slot 12 is carried over.
Stepper0 ==
    [ ZeroStepper(TRUE) EXCEPT !.state = [ ZeroVector EXCEPT ![NumStates] = slot12_0 ],
                               !.time = t_begin ]

\* What the buffering class makes of the copied-in state of the current call.
LC_result ==
    LC_propagate(copy_state_from_entity(entity0), Stepper0, t_begin, t_end,
                 accel, rot_accel).lag

\* C22: the diagnostics have no behavioural effect: in every send or receive
\* cycle of a rigid-body class the buffer, the entity state, integ_t and the
\* step count are those given by functions of the entity state at the call,
\* the times, the accelerations and the step control alone, whatever the
\* debug flag and the DebugHandler trace level are; so two runs that differ
\* only in these reach identical values.
C22_DebugHasNoEffect ==
    (RigidBody /\ Returned) =>
      /\ cnt.compensate = 0 =>
           /\ lag_comp_data = lag0
           /\ cnt.steps = 0
           /\ pc = "done" =>
                entity = IF variant = "LC" THEN copy_state_to_entity(lag0)
                                           ELSE entity0
      /\ cnt.compensate = 1 =>
           /\ integ_t = LC_step_control(t_begin, t_end).time
           /\ cnt.steps = Len(LC_step_control(t_begin, t_end).sizes)
           /\ variant = "SA" =>
                /\ integ_states(lag_comp_data) = SA_result.state
                /\ lag_comp_data.time = SA_result.time
                /\ entity = entity0
           /\ variant = "LC" =>
                /\ lag_comp_data = LC_result
                /\ pc = "done" => entity = copy_state_to_entity(LC_result)

C22_Witness ==
    /\ RigidBody /\ pc = "done" /\ cycles = MaxCycles
    /\ debug /\ show_trace /\ cnt.cout >= 4
    /\ cnt.steps >= 2 /\ lag_comp_data # lag0

\* The variants that hand the stepping to an external stepper.
Delegated == variant \in { "LC", "LCI" }

\* C23: in the delegated variants every pass of a main step executes load,
\* then the stepper's integrate, then unload, in that order, and the pass
\* loop repeats exactly while integrate returned non-zero; at every return
\* of compensate()/integrate() the numbers of load, integrate and unload
\* invocations are equal; the integration time and dt_go are only updated
\* after the pass loop of a main step has finished.
C23_PassLoop ==
    /\ [](Delegated =>
            /\ pc = "step" =>
                 cnt.load = cnt.integrate + 1 /\ cnt.integrate = cnt.unload
            /\ pc = "unload" =>
                 cnt.load = cnt.integrate /\ cnt.integrate = cnt.unload + 1
            /\ pc \notin { "step", "unload" } =>
                 cnt.load = cnt.integrate /\ cnt.integrate = cnt.unload)
    /\ [][ Delegated =>
             /\ pc = "load" => pc' = "step"
             /\ pc = "step" => pc' = "unload"
             /\ (pc = "unload" /\ ipass # 0) =>
                  pc' = (IF variant = "LC" THEN "load" ELSE "deriv")
             /\ (pc = "unload" /\ ipass = 0) => pc' = "update"
             /\ ( /\ pc \in { "while", "deriv", "load", "step", "unload", "update" }
                  /\ (integ_t' # integ_t \/ dt_go' # dt_go) ) =>
                  pc = "update" /\ ipass = 0 ]_vars

C23_Witness ==
    /\ variant = "LCI" /\ integrator.stages > 1
    /\ pc = "unload" /\ ipass # 0 /\ cnt.steps >= 1
    /\ cnt.load = cnt.steps * integrator.stages + 1

\* The calls of one pass of the generic loop.
PassCalls == << "derivative_first", "load", "integrate", "unload" >>

\* The calls of n passes.
RECURSIVE Passes(_)
Passes(n) == IF n = 0 THEN << >> ELSE PassCalls \o Passes(n - 1)

\* C24: LagCompensationInteg::integrate() calls its hooks in a fixed order:
\* derivative_first() immediately precedes every load() (once per pass),
\* update_time() is called exactly once per call, after the stepping loop
\* has ended and integ_t holds its final value, and derivative_first() is
\* called exactly once more after update_time(); with an interval not
\* exceeding the tolerance the calls are exactly update_time(),
\* derivative_first(), with no load/unload.
C24_HookOrder ==
    (variant = "LCI" /\ cnt.compensate = 1) =>
      /\ \A i \in 1..Len(cnt.calls) :
           cnt.calls[i] = "load" => (i > 1 /\ cnt.calls[i - 1] = "derivative_first")
      /\ pc \in { "while", "deriv", "update", "finish" } =>
           cnt.calls = Passes(cnt.load)
      /\ pc = "last" =>
           /\ cnt.calls = Passes(cnt.load) \o << "update_time" >>
           /\ integ_t = LC_step_control(t_begin, t_end).time
           /\ lag_comp_data.time = integ_t
      /\ Returned =>
           /\ cnt.calls = Passes(cnt.load) \o << "update_time", "derivative_first" >>
           /\ cnt.update_time = 1
           /\ cnt.derivative_first = cnt.load + 1
           /\ lag_comp_data.time = integ_t
           /\ Interval <= integ_tol =>
                cnt.calls = << "update_time", "derivative_first" >>

C24_Witness ==
    /\ variant = "LCI" /\ pc = "done" /\ cnt.compensate = 1
    /\ integrator.stages > 1 /\ cnt.steps >= 2
    /\ Len(cnt.calls) = 4 * cnt.steps * integrator.stages + 2

C24_WitnessNoStep ==
    /\ variant = "LCI" /\ pc = "done" /\ cnt.compensate = 1
    /\ 0 < Interval /\ Interval <= integ_tol
    /\ cnt.calls = << "update_time", "derivative_first" >>

\* The positions of a running compensate()/integrate() call inside its loop.
InLoop == pc \in { "while", "deriv", "load", "step", "unload", "update" }

\* C25: within one compensate()/integrate() call the remaining interval
\* dt_go strictly decreases from one outer-loop iteration to the next, by
\* exactly the step just taken; it changes nowhere else inside the loop, and
\* it never becomes negative when it started non-negative.
C25_RemainingShrinks ==
    /\ [][ (cnt.compensate = 1 /\ InLoop) =>
             IF pc = "update"
             THEN /\ pc' = "while"
                  /\ integrator.dt > 0
                  /\ dt_go' = dt_go - integrator.dt
                  /\ dt_go' < dt_go
                  /\ cnt'.sizes = Append(cnt.sizes, dt_go - dt_go')
             ELSE dt_go' = dt_go ]_vars
    /\ []( (cnt.compensate = 1 /\ InLoop /\ Interval >= 0) => dt_go >= 0 )
    /\ []( (cnt.compensate = 1 /\ pc = "while" /\ cnt.steps = 0) => dt_go = Interval )

C25_Witness ==
    /\ variant = "LC" /\ pc = "while" /\ cnt.compensate = 1
    /\ cnt.steps = 2 /\ cnt.sizes = << integ_dt, integ_dt >>
    /\ dt_go = Interval - 2 * integ_dt /\ dt_go > integ_tol

\* The quaternion rate of a buffer.
Q_dot_of(d) == compute_Q_dot(d.quat_scalar, d.quat_vector, d.ang_vel)

\* C26: each compensate() call of the rigid-body classes follows the order
\* copy-in, stepping, done: copy_state_from_entity() runs exactly once and
\* before the first load/step, the initial Q_dot is computed from that
\* snapshot before stepping, the entity is not written while the call is
\* stepping, and copy_state_to_entity() runs only once compensate() is no
\* longer running (after its return).
C26_CycleOrder ==
    /\ [][ RigidBody =>
             /\ cnt'.copy_from > cnt.copy_from =>
                  /\ pc = "call" /\ pc' = "while"
                  /\ cnt.copy_from = 0 /\ cnt.load = 0 /\ cnt.integrate = 0
                  /\ lag_comp_data' = copy_state_from_entity(entity)
                  /\ Q_dot' = Q_dot_of(copy_state_from_entity(entity))
             /\ (pc = "call" \/ InLoop \/ pc = "finish") => entity' = entity
             /\ cnt'.copy_to > cnt.copy_to =>
                  /\ pc = "ret" /\ pc' = "done"
                  /\ cnt.compensate = 1 => status = 0 ]_vars
    /\ []( (RigidBody /\ cnt.compensate = 1) => cnt.copy_from = 1 )
    /\ []( (RigidBody /\ (cnt.load > 0 \/ cnt.integrate > 0)) =>
             (cnt.compensate = 1 /\ cnt.copy_from = 1) )
    /\ []( (RigidBody /\ cnt.compensate = 1 /\ pc = "while" /\ cnt.load = 0) =>
             /\ lag_comp_data = copy_state_from_entity(entity)
             /\ Q_dot = Q_dot_of(lag_comp_data) )
    /\ []( (RigidBody /\ cnt.copy_to > 0) => (pc = "done" /\ cnt.copy_to = 1) )

C26_Witness ==
    /\ variant = "LC" /\ pc = "done" /\ cnt.compensate = 1
    /\ cnt.copy_from = 1 /\ cnt.copy_to = 1 /\ cnt.steps >= 2
    /\ entity # entity0

\* What the buffering class would make of the copied-in state of the current
\* call alone, with nothing left in the stepper from earlier cycles.
LC_result_of_snapshot ==
    LC_propagate(copy_state_from_entity(entity0),
                 [ ZeroStepper(TRUE) EXCEPT !.time = t_begin ],
                 t_begin, t_end, accel, rot_accel).lag

C28_StatusZeroIgnored ==
    /\ []( (cnt.compensate = 1 /\ Returned) => status = 0 )
    /\ [][ status' # status =>
             \/ status' = 0 /\ pc \in { "finish", "last" } /\ pc' = "ret"
             \/ status' = -1 /\ pc' \in { "idle", "call", "ret", "destroyed" } ]_vars
    /\ [][ (RigidBody /\ pc = "ret") =>
             /\ pc' = "done"
             /\ entity' = IF variant = "LC" THEN copy_state_to_entity(lag_comp_data)
                                            ELSE entity
             /\ lag_comp_data' = lag_comp_data
             /\ status' = status ]_vars

C28_Witness ==
    /\ variant = "SA" /\ pc = "done" /\ cnt.compensate = 1
    /\ status = 0 /\ cnt.steps >= 1 /\ mode = "send"

\* C29: the base-class entry points are not usable as they are: a call of
\* LagCompensation::send_lag_compensation() or receive_lag_compensation() on
\* a class that did not override them terminates the program and performs
\* no compensation: no copy, no step, and the buffer, the entity and the
\* stepper stay as they were.
C29_BaseEntryPointsTerminate ==
    /\ []( variant = "Base" =>
             /\ pc \in { "new", "constructed", "terminated" }
             /\ (pc = "terminated") <=> (mode \in { "base_send", "base_recv" })
             /\ cnt = ZeroCounts /\ cycles = 0 )
    /\ [][ (variant = "Base" /\ mode' # mode) =>
             /\ pc' = "terminated"
             /\ UNCHANGED << entity, lag_comp_data, Q_dot, integrator, integ_t,
                             compensate_dt, cnt >> ]_vars
    /\ [][ (variant = "Base" /\ pc = "terminated") => UNCHANGED vars ]_vars

C29_Witness == variant = "Base" /\ pc = "terminated" /\ mode = "base_recv"

\* C30: the three compensator classes are constructed with the same
\* step-control defaults: integ_t = 0.0, fixed step integ_dt = 0.05 (one
\* tick), tolerance integ_tol = 1.0e-8 (below one tick), and the rigid-body
\* classes with accel and rot_accel all zero, whatever the input file sets
\* afterwards.
C30_ConstructorDefaults ==
    (pc = "new" /\ variant \in { "SA", "LC", "LCI" }) =>
      /\ integ_t = 0
      /\ integ_dt = IntegDtDefault
      /\ integ_tol = IntegTolDefault
      /\ RigidBody => (accel = Zero3 /\ rot_accel = Zero3)

C30_Witness ==
    /\ pc = "new" /\ variant = "LC"
    /\ integ_dt = IntegDtDefault /\ input_file.integ_dt = MaxIntegDt
    /\ integ_tol = IntegTolDefault /\ input_file.integ_tol = MaxIntegTol

\* A compensate()/integrate() call that has passed its prologue.
Running == cnt.compensate = 1 /\ pc \in { "while", "deriv", "load", "step", "unload",
                                          "update", "finish", "last", "ret", "done" }

\* C31: during any compensate(t_begin, t_end) or integrate(t_begin, t_end)
\* with t_end >= t_begin the integration time never overshoots the target:
\* t_begin <= integ_t <= t_end holds from the prologue on and after every
\* main step, and integ_t never decreases during the call.
C31_NoOvershoot ==
    /\ []( (Running /\ t_end >= t_begin) =>
             /\ t_begin <= integ_t /\ integ_t <= t_end
             /\ cnt.steps = 0 => integ_t = t_begin )
    /\ [][ (Running /\ t_end >= t_begin /\ cnt'.compensate = 1) =>
             /\ integ_t' >= integ_t
             /\ integ_t' # integ_t => (pc = "update" /\ integ_t' = integ_t + integrator.dt) ]_vars

C31_Witness ==
    /\ variant = "LCI" /\ pc = "done" /\ cnt.compensate = 1
    /\ t_begin > 0 /\ integ_t = t_end /\ cnt.steps >= 2
    /\ cnt.sizes[cnt.steps] < integ_dt

\* The positions at which a running call uses its stepper.
UsesStepper == pc \in { "call", "while", "deriv", "load", "step", "unload",
                        "update", "finish", "last" }

IsSAResult(d) == integ_states(d) = SA_result.state /\ d.time = SA_result.time

\* C33: PhysicalEntityLagCompSA::send_lag_compensation() is idempotent with
\* respect to an unchanged entity: the call leaves the entity as it was and
\* its buffer is a function of the live entity state, the scenario time and
\* the lookahead alone, so a call that finds in the buffer the result of an
\* earlier call with the same entity, time and lookahead ends with the same
\* buffer.
C33_SendIdempotent ==
    (variant = "SA" /\ mode = "send" /\ pc = "done") =>
      /\ entity = entity0
      /\ t_begin = scenario_t /\ t_end = scenario_t + lookahead
      /\ IsSAResult(lag_comp_data)
      /\ IsSAResult(lag0) => lag_comp_data = lag0

C33_Witness ==
    /\ variant = "SA" /\ mode = "send" /\ pc = "done" /\ cycles = 2
    /\ IsSAResult(lag0) /\ lag_comp_data = lag0
    /\ cnt.steps >= 2 /\ integ_states(lag0) # integ_states(entity0)

\* C34: within one main step of a multi-pass stepper the requested step size
\* is the same in every pass: integrator->dt is set again in each pass from
\* a dt_go that does not change inside the pass loop, so a pass after the
\* first requests the size the first pass requested, and the main step ends
\* having advanced the stepper's time by that size.
C34_SameSizeInEveryPass ==
    /\ [][ (Delegated /\ cnt.compensate = 1) =>
             /\ pc \in { "deriv", "load", "step", "unload" } => dt_go' = dt_go
             /\ pc = "step" =>
                  /\ integrator'.dt = Min(dt_go, integ_dt)
                  /\ integrator.intermediate_step > 0 => integrator'.dt = integrator.dt
                  /\ integrator'.time \in { integrator.time, integrator.time + integrator'.dt }
             /\ pc \in { "unload", "deriv", "load" } => integrator'.dt = integrator.dt ]_vars
    /\ []( (Delegated /\ cnt.compensate = 1 /\ pc = "update") =>
             /\ integrator.intermediate_step = 0
             /\ cnt.integrate = (cnt.steps + 1) * integrator.stages )

C34_Witness ==
    /\ variant = "LCI" /\ pc = "update" /\ integrator.stages = 2
    /\ cnt.integrate = 4 /\ cnt.steps = 1
    /\ integrator.dt < integ_dt /\ integrator.dt = dt_go

\* C35: without object (or with an object without federate)
\* get_scenario_time() gives the most negative double and get_lookahead() an
\* interval of -1.0, so send_lag_compensation() requests a non-positive
\* interval and takes no integration step, while it still runs the copy-in
\* (and, in the buffering class, the copy-out) and records t_begin as the
\* compensated time.
C35_NoFederateSend ==
    (RigidBody /\ ~federate /\ mode = "send") =>
      /\ begin_t = MostNegative
      /\ get_lookahead(federate, lookahead) = -1
      /\ Minus(end_t, begin_t) <= 0
      /\ NoStepTaken
      /\ pc \notin { "load", "step", "unload", "update" }
      /\ Returned =>
           /\ cnt.compensate = 1 /\ cnt.copy_from = 1
           /\ t_begin = MostNegative /\ integ_t = t_begin
           /\ lag_comp_data = [ copy_state_from_entity(entity0) EXCEPT !.time = t_begin ]
      /\ pc = "done" =>
           /\ variant = "LC" => (cnt.copy_to = 1 /\ entity = copy_state_to_entity(lag_comp_data))
           /\ variant = "SA" => (cnt.copy_to = 0 /\ entity = entity0)

C35_Witness ==
    /\ variant = "LC" /\ ~federate /\ mode = "send" /\ pc = "done"
    /\ cnt.copy_from = 1 /\ cnt.copy_to = 1 /\ cnt.steps = 0
    /\ lag_comp_data.time = MostNegative /\ entity.vel # Zero3
    /\ lookahead = MaxLookahead

\* C36: after PhysicalEntityBase::default_data(..., publishes) the object has
\* exactly 9 attributes, the nine of the PhysicalEntity object class, and
\* every one of them has publish = publishes, subscribe = not publishes and
\* locally_owned = publishes: none is both published and subscribed and each
\* is locally owned exactly when it is published.  A default_data() that
\* terminates leaves the object as it was.
C36_AttributeDefaults ==
    /\ peb_pc \in { "defaulted", "initialized" } /\ pe_object.attr_count # 0
         => /\ pe_object.attr_count = 9
            /\ Len(pe_object.attributes) = 9
            /\ { pe_object.attributes[k].FOM_name : k \in 1..9 } = AttributeNameSet
            /\ Cardinality(AttributeNameSet) = 9
            /\ \A k \in 1..9 :
                 LET a == pe_object.attributes[k]
                 IN  /\ a.publish = pe_object.create_HLA_instance
                     /\ a.subscribe = ~a.publish
                     /\ a.locally_owned = a.publish
                     /\ ~(a.publish /\ a.subscribe)
    /\ peb_pc = "defaulted" => pe_object.attr_count = 9
    /\ peb_pc \in { "constructed", "terminated" } => pe_object.attr_count = 0

C36_Witness ==
    /\ peb_pc = "defaulted" /\ pe_object.attr_count = 9
    /\ ~pe_object.create_HLA_instance
    /\ pe_object.attributes[9].subscribe /\ ~pe_object.attributes[9].locally_owned

=============================================================================
